---- MODULE Spec2Model ----
(***************************************************************************)
(* The Tiny-Extended compiler and its PM virtual machine:                  *)
(*   tokenizer.py (Flix) -> parser.py (Taurus) -> semiotics.py (Pilgrim)   *)
(*   -> prru_code.py (Malcolm) -> prru_machine.py (Sigma).                 *)
(* Each stage is an operator over the previous stage's artifact; the       *)
(* public entry points (parse, walk, degen, evaluate, step_pm) are the      *)
(* actions.                                                                *)
(***************************************************************************)
EXTENDS Integers, Sequences, FiniteSets, TLC

VARIABLES
    tokens,          \* the token stream Flix.scan() yields for the source file
    taurus,          \* Taurus: _curr (as an index), errors, and how parse() ended
    frames,          \* the statement lists parse() has open (its call stack)
    taurus_root,     \* Taurus.root
    pilgrim_errors,  \* Pilgrim.errors
    symbol_table,    \* Pilgrim.symbol_table (shared with Malcolm and Sigma)
    prru_code,       \* Malcolm.prru_code: the instruction listing
    iMem,            \* Sigma.iMem
    dMem,            \* Sigma.dMem
    reg,             \* Sigma.reg (1-based here: reg[k+1] is the code's reg[k])
    pm,              \* bookkeeping of the last step_pm call (fetch, address, result)
    raised,          \* the exception the call ended with, or "none"
    hang,            \* TRUE when the call never returns
    op,              \* the entry point called last: parse, walk, degen, ...
    phase,           \* how far that call has got
    walks,           \* what the last two walk() calls left, as their caller copied it
    malcolm,         \* Malcolm's emit state (pulga, highEmitLoc, _break, ...); its listing
                     \* is prru_code
    commands,        \* the commands do_command has read since the program was loaded
    input_file       \* the lines of the file Flix reads, where the text is modelled

vars == <<tokens, taurus, frames, taurus_root, pilgrim_errors, symbol_table,
          prru_code, iMem, dMem, reg, pm, raised, hang, op, phase, walks, malcolm,
          commands, input_file>>

(***************************************************************************)
(* Tokens (tokenizer.py).  A token's location is "line:col"; the model     *)
(* lays the stream out on one line, ten columns per token.                 *)
(***************************************************************************)
Keywords == {"main", "int", "real", "boolean", "if", "then", "else", "while",
             "repeat", "until", "cin", "cout", "coutln", "rompe"}

\* the token groups of Flix, in priority order, on the lexemes the model uses
CategoryOf(l) ==
    IF l \in {"1.5", "0.5"} THEN "REAL"
    ELSE IF l \in {"True", "False"} THEN "BOOLEAN"
    ELSE IF l \in {"0", "1", "2", "3", "4", "5", "7", "10"} THEN "INT"
    ELSE IF l \in Keywords THEN "KEYWORD"
    ELSE IF l \in {"x", "y", "b", "f", "n", "i", "cinx"} THEN "ID"
    ELSE IF l \in {"{", "}", ";", ",", "(", ")"} THEN "SPECIAL"
    ELSE IF l \in {"++", "--", "+", "-", "<=", "<", ">=", ">", "==", "!=", ":=", "*", "/"}
         THEN "OP"
    ELSE "error"

\* the stream scan() yields for a source made of the given lexemes
Scan(lexemes) ==
    [k \in 1..Len(lexemes) |-> [lex |-> lexemes[k], cat |-> CategoryOf(lexemes[k])]]

NoLoc == <<0, 0>>

Loc(i) == <<1, 10 * (i - 1) + 1>>

\* Token('', '', ''): what _try_next returns once the generator is exhausted
EOFToken == [lex |-> "", cat |-> "", loc |-> NoLoc]

TokenAt(i) ==
    IF i >= 1 /\ i <= Len(tokens)
    THEN [lex |-> tokens[i].lex, cat |-> tokens[i].cat, loc |-> Loc(i)]
    ELSE EOFToken

(***************************************************************************)
(* Atoms (parser.py): a token copy with an optional lexeme override, the   *)
(* ordered children, and the ad-hoc attributes _inc_dec and _id_location.  *)
(* The lexemes "Assign to: x" and "cin: x" are kept as a label plus tgt.   *)
(***************************************************************************)
Atom(t, lexeme) ==
    [lex |-> IF lexeme # "" THEN lexeme ELSE t.lex, cat |-> t.cat, loc |-> t.loc,
     tgt |-> "", inc_dec |-> FALSE, id_loc |-> NoLoc, kids |-> <<>>]

NoneAtom == Atom([lex |-> "<None>", cat |-> "", loc |-> NoLoc], "")

\* what degen() resets before it calls walk()
NewMalcolm == [code |-> <<>>, pulga |-> 0, highEmitLoc |-> 0, tmpOffset |-> 0,
               break |-> FALSE, break_loc |-> -1, raised |-> "none", locals |-> <<>>]


(***************************************************************************)
(* Flix.scan() on the text of a file (tokenizer.py): the lines of the file *)
(* without their line ends, the tokens with their "line:column" locations. *)
(***************************************************************************)
Char(line, i) == IF i >= 1 /\ i <= Len(line) THEN SubSeq(line, i, i) ELSE ""

Two(line, i) == IF i >= 1 /\ i < Len(line) THEN SubSeq(line, i, i + 1) ELSE ""

Digits09 == {"0", "1", "2", "3", "4", "5", "6", "7", "8", "9"}

Letters ==
    {"a", "b", "c", "d", "e", "f", "g", "h", "i", "j", "k", "l", "m", "n", "o", "p", "q", "r",
     "s", "t", "u", "v", "w", "x", "y", "z", "A", "B", "C", "D", "E", "F", "G", "H", "I", "J",
     "K", "L", "M", "N", "O", "P", "Q", "R", "S", "T", "U", "V", "W", "X", "Y", "Z"}

\* the position after the longest run of characters of the set that begins at i
RunEnd(line, i, set) ==
    CHOOSE j \in i..(Len(line) + 1) :
        /\ Char(line, j) \notin set
        /\ \A k \in i..(j - 1) : Char(line, k) \in set

\* the positions from i on at which the two characters pair stand
Pairs(line, i, pair) == {j \in i..Len(line) : Two(line, j) = pair}

Least(set) == CHOOSE j \in set : \A k \in set : j <= k

Greatest(set) == CHOOSE j \in set : \A k \in set : k <= j

\* _replace_tabs: each tab becomes the spaces up to the next multiple of tab_length
tab_length == 4

\* a _replace_tabs that takes every tab for tab_length spaces
RECURSIVE _replace_tabs_by_length(_, _)
_replace_tabs_by_length(string, column) ==
    IF string = "" THEN ""
    ELSE IF Head(string) = "\t"
    THEN "    " \o _replace_tabs_by_length(Tail(string), column)
    ELSE Head(string) \o _replace_tabs_by_length(Tail(string), column + 1)

RECURSIVE _replace_tabs(_, _)
_replace_tabs(string, column) ==
    IF string = "" THEN ""
    ELSE IF Head(string) = "\t"
    THEN (IF column % tab_length = 0 THEN "    "
          ELSE SubSeq("    ", 1, tab_length - (column % tab_length)))
         \o _replace_tabs(Tail(string), IF column % tab_length = 0 THEN column ELSE 0)
    ELSE Head(string) \o _replace_tabs(Tail(string), column + 1)

\* _token_pattern at position i of the line: the group that matches, first
\* alternative first, and the position after the match
_token_pattern(line, i) ==
    LET c == Char(line, i)
        m(category, end) == [category |-> category, end |-> end]
        int_end == RunEnd(line, i, Digits09)
    IN  CASE c \in {" ", "\t", "\r", "\f"} -> m("skip", RunEnd(line, i, {" ", "\t", "\r", "\f"}))
          [] Two(line, i) = "//" -> m("skip", Len(line) + 1)
          [] Two(line, i) = "/*" ->
               IF Pairs(line, i + 2, "*/") # {}
               THEN m("skip", Least(Pairs(line, i + 2, "*/")) + 2)
               ELSE m("block_start", Len(line) + 1)
          [] c \in Digits09 ->
               IF Char(line, int_end) = "." /\ Char(line, int_end + 1) \in Digits09
               THEN m("REAL", RunEnd(line, int_end + 1, Digits09))
               ELSE m("INT", int_end)
          [] SubSeq(line, i, IF i + 3 <= Len(line) THEN i + 3 ELSE i - 1) = "True" ->
               m("BOOLEAN", i + 4)
          [] SubSeq(line, i, IF i + 4 <= Len(line) THEN i + 4 ELSE i - 1) = "False" ->
               m("BOOLEAN", i + 5)
          [] c \in Letters -> m("ID", RunEnd(line, i, Letters \cup Digits09 \cup {"_"}))
          [] c \in {"{", "}", ";", ",", "(", ")"} -> m("SPECIAL", i + 1)
          [] Two(line, i) \in {"++", "--", "<=", ">=", ":=", "==", "!="} -> m("OP", i + 2)
          [] c \in {"+", "-", "<", ">", "*", "/"} -> m("OP", i + 1)
          [] OTHER -> m("error", i + 1)

\* _block_end.match(line).end(), as a position: [^\n]* takes all it can, so the
\* match ends with the last */ of the line; 0 when the line has none
_block_end(line) ==
    IF Pairs(line, 1, "*/") = {} THEN 0 ELSE Greatest(Pairs(line, 1, "*/")) + 2

\* the loop over finditer(line, start_pos) on line line_num: the tokens yielded
\* and block_comment_mode after the line
RECURSIVE Finditer(_, _, _)
Finditer(line, line_num, i) ==
    IF i > Len(line) THEN [yielded |-> <<>>, block_comment_mode |-> FALSE]
    ELSE IF _token_pattern(line, i).category = "skip"
    THEN Finditer(line, line_num, _token_pattern(line, i).end)
    ELSE IF _token_pattern(line, i).category = "block_start"
    THEN [yielded |-> <<>>, block_comment_mode |-> TRUE]
    ELSE [Finditer(line, line_num, _token_pattern(line, i).end) EXCEPT
             !.yielded =
                 <<[lex |-> SubSeq(line, i, _token_pattern(line, i).end - 1),
                    cat |-> IF _token_pattern(line, i).category = "ID"
                               /\ SubSeq(line, i, _token_pattern(line, i).end - 1) \in Keywords
                            THEN "KEYWORD" ELSE _token_pattern(line, i).category,
                    loc |-> <<line_num, i>>]>> \o @]

\* scan() from line line_num of the file on
RECURSIVE ScanFrom(_, _, _)
ScanFrom(lines, line_num, block_comment_mode) ==
    IF line_num > Len(lines) THEN <<>>
    ELSE IF block_comment_mode /\ _block_end(_replace_tabs(lines[line_num], 0)) = 0
    THEN ScanFrom(lines, line_num + 1, TRUE)
    ELSE Finditer(_replace_tabs(lines[line_num], 0), line_num,
                  IF block_comment_mode THEN _block_end(_replace_tabs(lines[line_num], 0))
                  ELSE 1).yielded
         \o ScanFrom(lines, line_num + 1,
                     Finditer(_replace_tabs(lines[line_num], 0), line_num,
                              IF block_comment_mode
                              THEN _block_end(_replace_tabs(lines[line_num], 0))
                              ELSE 1).block_comment_mode)

scan(lines) == ScanFrom(lines, 1, FALSE)
(***************************************************************************)
(* Taurus: the recursive-descent parser (parser.py).  The parser's mutable *)
(* state is threaded through the operators as a record ps:                 *)
(*   pos    index of self._curr in the stream (Len+1 once exhausted)       *)
(*   errs   self.errors                                                    *)
(*   fatal  the lexical-error RuntimeError of _get_token was raised        *)
(*   spin   a loop came back to its head without consuming a token and     *)
(*          with its condition still true: it repeats forever              *)
(*   ok     what the last _sync returned                                   *)
(*   node   what the parsing method that ran last returned                 *)
(***************************************************************************)
FirstDl == {"int", "real", "boolean"}
FirstUna == {"++", "--"}
FirstRel == {"<=", "<", ">", ">=", "==", "!="}
FirstAdd == {"+", "-"}
FirstMul == {"*", "/"}
FirstAt == {":="} \cup FirstUna
FirstSl == {"if", "while", "repeat", "cin", "cout", "coutln", "{"} \cup FirstUna
FirstFact == {"(", "True", "False"}
FirstExp == FirstAdd \cup FirstFact
FollowDl == FirstSl \cup {"}"}
FirstLoopSl == FirstSl \cup {"rompe"}
FollowFact == FirstMul \cup FirstRel \cup FirstAdd \cup {";", ")"}
ID_ == {"ID"}
NUM_ == {"INT", "REAL"}
ID_NUM == ID_ \cup NUM_

\* an expected lexeme is a str, or a tuple of strs (self._ID, tuple(_first_at), ...)
Str(s) == [tup |-> FALSE, str |-> s, set |-> {}]
Tup(set) == [tup |-> TRUE, str |-> "", set |-> set]

Dead(ps) == ps.fatal \/ ps.spin

\* self._curr; after a raise nothing more is read
Cur(ps) == IF Dead(ps) THEN EOFToken ELSE TokenAt(ps.pos)

GetToken(ps) ==
    IF Dead(ps) \/ ps.pos > Len(tokens) THEN ps
    ELSE [ps EXCEPT !.pos = @ + 1, !.fatal = (TokenAt(ps.pos + 1).cat = "error")]

RECURSIVE LookaheadFrom(_, _)
LookaheadFrom(i, loc) ==
    IF TokenAt(i).loc # NoLoc /\ TokenAt(i).loc # loc
    THEN LookaheadFrom(i + 1, loc)
    ELSE TokenAt(i + 1)

Lookahead(current_token) == LookaheadFrom(1, current_token.loc)

\* Python's "category in container": membership in a tuple, substring of a str.
\* The categories are ID, KEYWORD, INT, REAL, BOOLEAN, OP, SPECIAL and '' (end of
\* input); among the strs the parser expects, only the two labels below contain one.
CategoryIn(category, container) ==
    IF container.tup THEN category \in container.set
    ELSE \/ category = ""
         \/ category = container.str
         \/ category = "ID" /\ container.str = "Independent ID"
         \/ category = "OP" /\ container.str = "Arithmetic or relational OP"

CheckIdNum(ps, category_flag) == CategoryIn(Cur(ps).cat, category_flag)

Pow10(k) == IF k = 0 THEN 1 ELSE IF k = 1 THEN 10 ELSE IF k = 2 THEN 100 ELSE 1000

\* _add_error comparing no location at all
LocationNever(location, err) == FALSE

\* "location not in errors[-1]": the str "l:c" occurs in the last message
\* "Error at L:C: token -> ..." iff l is a decimal suffix of L and c a decimal prefix of C
LocationIn(location, err) ==
    /\ err.kind = "at"
    /\ \E k \in 1..3 : location[1] >= Pow10(k - 1) /\ location[1] < Pow10(k)
                       /\ err.loc[1] % Pow10(k) = location[1]
    /\ \E k \in 0..3 : err.loc[2] \div Pow10(k) = location[2]

\* _add_error without its test of the current lexeme: it reports at the end of input too
AddErrorAnywhere(ps, expected_lexeme) ==
    IF ps.errs = <<>> \/ ~LocationIn(Cur(ps).loc, ps.errs[Len(ps.errs)])
    THEN [ps EXCEPT !.errs = Append(@, [kind |-> "at", loc |-> Cur(ps).loc,
                                        cat |-> Cur(ps).cat, lex |-> Cur(ps).lex,
                                        expected |-> expected_lexeme])]
    ELSE ps

AddError(ps, expected_lexeme) ==
    IF Cur(ps).lex # ""
       /\ (ps.errs = <<>> \/ ~LocationIn(Cur(ps).loc, ps.errs[Len(ps.errs)]))
    THEN [ps EXCEPT !.errs = Append(@, [kind |-> "at", loc |-> Cur(ps).loc,
                                        cat |-> Cur(ps).cat, lex |-> Cur(ps).lex,
                                        expected |-> expected_lexeme])]
    ELSE ps

\* a _scanto that raises where it should skip to a synchronizing token
ScantoGivesUp(ps, syncset, category_flag) == [ps EXCEPT !.fatal = TRUE]

\* every pass of the loop reads a token that is there, so it moves on or raises
RECURSIVE Scanto(_, _, _)
Scanto(ps, syncset, category_flag) ==
    IF Cur(ps).lex # "" /\ Cur(ps).lex \notin syncset /\ ~CheckIdNum(ps, Tup(category_flag))
    THEN Scanto(GetToken(ps), syncset, category_flag)
    ELSE ps

Sync(ps, expected_lexeme, syncset, category_flag) ==
    IF (~expected_lexeme.tup /\ Cur(ps).lex = expected_lexeme.str)
       \/ CheckIdNum(ps, expected_lexeme)
    THEN [GetToken(ps) EXCEPT !.ok = TRUE]
    ELSE [Scanto(AddError(ps, expected_lexeme), syncset, category_flag) EXCEPT !.ok = FALSE]

CheckForStarter(ps, expected_starter, first_set, category_flag) ==
    IF Cur(ps).lex \notin first_set /\ ~CheckIdNum(ps, Tup(category_flag))
    THEN Sync(ps, Str(expected_starter), first_set, category_flag)
    ELSE ps

IndependentId(ps) ==
    CheckIdNum(ps, Tup(ID_)) /\ Lookahead(Cur(ps)).lex \notin FirstAt

Independent(ps, first_set) ==
    Cur(ps).lex \in first_set \/ CheckIdNum(ps, Tup(NUM_)) \/ IndependentId(ps)

\* "return node", and the return of one node or another by the last _sync's result
Node(ps, node) == [ps EXCEPT !.node = node]

NodeIf(ps, synced, otherwise) == [ps EXCEPT !.node = IF ps.ok THEN synced ELSE otherwise]

\* a loop is back at its head, its condition true, at the token where its last pass began
Spin(ps) == [ps EXCEPT !.spin = TRUE]

\* the placeholder lexeme of an atom built where the expected token is missing
Oslash == "<O/>"

WithKids(atom, children) == [atom EXCEPT !.kids = children]

\* "x.parent = atom" for the node just returned, after the children atom has already
Parent(ps, atom, elder) == [ps EXCEPT !.node = WithKids(atom, elder \o <<@>>)]

\* the _sync of _extend_exp
ExtendExp(ps, op_lexeme, additional_syncset) ==
    Sync(ps, Str(op_lexeme), FirstExp \cup FollowDl \cup additional_syncset, ID_NUM)

RECURSIVE Expression(_, _, _)

Factor(ps, additional_syncset, condition) ==
    IF Cur(ps).lex = "("
    THEN Sync(Expression(GetToken(ps), additional_syncset, condition), Str(")"),
              FollowFact \cup FollowDl \cup additional_syncset, ID_)
    ELSE IF CheckIdNum(ps, Tup(ID_NUM)) \/ Cur(ps).lex \in {"True", "False"}
    THEN Node(GetToken(ps), Atom(Cur(ps), ""))
    ELSE Node(Sync(ps, Tup(FirstFact \cup ID_NUM),
                   FollowFact \cup FollowDl \cup additional_syncset, ID_),
              Atom(Cur(ps), Oslash))

Superfactor(ps, additional_syncset, condition) ==
    IF Cur(ps).lex \in FirstAdd
    THEN Parent(Factor(GetToken(ps), additional_syncset, condition), Atom(Cur(ps), ""), <<>>)
    ELSE Factor(ps, additional_syncset, condition)

\* the loop of _term: ps.node is temp, last the token at which the pass before began
RECURSIVE TermLoop(_, _, _, _)
TermLoop(ps, last, additional_syncset, condition) ==
    IF ~(Cur(ps).lex \in FirstMul \/ (condition /\ Independent(ps, FirstFact))) THEN ps
    ELSE IF ps.pos = last THEN Spin(ps)
    ELSE TermLoop(
           Parent(Superfactor(ExtendExp(ps, IF Cur(ps).lex \in FirstMul THEN Cur(ps).lex
                                            ELSE "Arithmetic or relational OP",
                                        additional_syncset),
                              additional_syncset, condition),
                  Atom(Cur(ps), IF Cur(ps).lex \in FirstMul THEN "" ELSE Oslash),
                  <<ps.node>>),
           ps.pos, additional_syncset, condition)

Term(ps, additional_syncset, condition) ==
    TermLoop(Superfactor(ps, additional_syncset, condition), 0, additional_syncset, condition)

RECURSIVE SimpleExpressionLoop(_, _, _, _)
SimpleExpressionLoop(ps, last, additional_syncset, condition) ==
    IF Cur(ps).lex \notin FirstAdd THEN ps
    ELSE IF ps.pos = last THEN Spin(ps)
    ELSE SimpleExpressionLoop(
           Parent(Term(ExtendExp(ps, Cur(ps).lex, additional_syncset),
                       additional_syncset, condition),
                  Atom(Cur(ps), ""), <<ps.node>>),
           ps.pos, additional_syncset, condition)

\* a _simple_expression that associates its operators to the right
RECURSIVE SimpleExpressionRight(_, _, _)
SimpleExpressionRight(ps, additional_syncset, condition) ==
    LET left == Term(ps, additional_syncset, condition)
    IN  IF Cur(left).lex \notin FirstAdd THEN left
        ELSE Parent(SimpleExpressionRight(ExtendExp(left, Cur(left).lex, additional_syncset),
                                          additional_syncset, condition),
                    Atom(Cur(left), ""), <<left.node>>)

SimpleExpression(ps, additional_syncset, condition) ==
    SimpleExpressionLoop(Term(ps, additional_syncset, condition), 0,
                         additional_syncset, condition)

\* _expression once its first _simple_expression has returned temp
Relational(temp, additional_syncset, condition) ==
    IF Cur(temp).lex \in FirstRel
    THEN Parent(SimpleExpression(ExtendExp(temp, Cur(temp).lex, additional_syncset),
                                 additional_syncset, condition),
                Atom(Cur(temp), ""), <<temp.node>>)
    ELSE temp

Expression(ps, additional_syncset, condition) ==
    Relational(SimpleExpression(ps, additional_syncset, condition),
               additional_syncset, condition)

\* _selection up to its first _block
SelectionHead(ps, additional_syncset) ==
    LET with_else == additional_syncset \cup {"else"}
    IN  Parent(
          Sync(Sync(Expression(Sync(GetToken(ps), Str("("),
                                    FirstExp \cup FollowDl \cup with_else, ID_NUM),
                               with_else, TRUE),
                    Str(")"), {"then"} \cup FollowDl \cup with_else, ID_),
               Str("then"), FollowDl \cup with_else, ID_),
          Atom(Cur(ps), ""), <<>>)

\* _iteration up to its _block
IterationHead(ps, additional_syncset) ==
    LET with_break == additional_syncset \cup {"rompe"}
    IN  Parent(
          Sync(Expression(Sync(GetToken(ps), Str("("),
                               FirstExp \cup FollowDl \cup with_break, ID_NUM),
                          with_break, TRUE),
               Str(")"), FollowDl \cup with_break, ID_),
          Atom(Cur(ps), ""), <<>>)

\* _repetition after its _block: "until" "(" expression ")" ";"
RepetitionTail(ps, additional_syncset) ==
    LET with_break == additional_syncset \cup {"rompe"}
    IN  Sync(Sync(Expression(Sync(Sync(ps, Str("until"),
                                       {"("} \cup FollowDl \cup with_break, ID_),
                                  Str("("), FirstExp \cup FollowDl \cup with_break, ID_NUM),
                             with_break, TRUE),
                  Str(")"), {";"} \cup FollowDl \cup with_break, ID_),
             Str(";"), FollowDl \cup with_break, ID_)

CinStmt(ps, additional_syncset) ==
    LET cin_atom == [Atom(Cur(ps), "cin:") EXCEPT !.tgt = Oslash]
        id_atom == Cur(GetToken(ps))
    IN  Sync(NodeIf(Sync(GetToken(ps), Tup(ID_),
                         {";"} \cup FollowDl \cup additional_syncset, ID_),
                    [cin_atom EXCEPT !.tgt = id_atom.lex, !.id_loc = id_atom.loc],
                    cin_atom),
             Str(";"), FollowDl \cup additional_syncset, ID_)

CoutStmt(ps, additional_syncset) ==
    Sync(Parent(Expression(GetToken(ps), additional_syncset, FALSE), Atom(Cur(ps), ""), <<>>),
         Str(";"), FollowDl \cup additional_syncset, ID_)

BreakStmt(ps, additional_syncset) ==
    Sync(Node(GetToken(ps), Atom(Cur(ps), "")),
         Str(";"), FollowDl \cup additional_syncset, ID_)

\* the operator subtree of x++ / ++x: lexeme[0] over (x marked _inc_dec, the INT 1)
IncDec(op_token, name, category) ==
    WithKids(Atom(op_token, IF op_token.lex = "++" THEN "+" ELSE "-"),
      << [Atom([lex |-> name, cat |-> category, loc |-> op_token.loc], "")
             EXCEPT !.inc_dec = TRUE],
         Atom([lex |-> "1", cat |-> "INT", loc |-> op_token.loc], "") >>)

\* the last branch of _assignment: neither ":=" nor "++"/"--" follows the variable
AssignmentRecover(ps, var, additional_syncset) ==
    IF Independent(ps, FirstExp)
    THEN Parent(Expression(ps, additional_syncset, FALSE), var, <<>>)
    ELSE Node(ps, var)

Assignment(ps, additional_syncset) ==
    LET var == [Atom(Cur(ps), "Assign to:") EXCEPT !.tgt = Cur(ps).lex]
        operator == Cur(GetToken(ps))
    IN  Sync(IF operator.lex = ":="
             THEN Parent(Expression(GetToken(GetToken(ps)), additional_syncset, FALSE),
                         var, <<>>)
             ELSE IF operator.lex \in FirstUna
             THEN Node(GetToken(GetToken(ps)),
                       WithKids(var, <<IncDec(operator, var.tgt, var.cat)>>))
             ELSE AssignmentRecover(
                    Sync(GetToken(ps), Tup(FirstAt),
                         FirstExp \cup {";"} \cup FollowDl \cup additional_syncset, ID_NUM),
                    var, additional_syncset),
             Str(";"), FollowDl \cup additional_syncset, ID_)

\* a _pre whose copy of the variable is not marked _inc_dec
PreUnmarked(ps, additional_syncset) ==
    LET var(target) ==
            WithKids([Atom(Cur(GetToken(ps)), "Assign to:") EXCEPT !.tgt = target],
                     <<WithKids(Atom(Cur(ps), IF Cur(ps).lex = "++" THEN "+" ELSE "-"),
                         <<Atom([lex |-> target, cat |-> Cur(GetToken(ps)).cat,
                                 loc |-> Cur(ps).loc], ""),
                           Atom([lex |-> "1", cat |-> "INT", loc |-> Cur(ps).loc], "")>>)>>)
    IN  Sync(NodeIf(Sync(GetToken(ps), Tup(ID_),
                         {";"} \cup FollowDl \cup additional_syncset, ID_),
                    var(Cur(GetToken(ps)).lex), var(Oslash)),
             Str(";"), FollowDl \cup additional_syncset, ID_)

Pre(ps, additional_syncset) ==
    LET var(target) ==
            WithKids([Atom(Cur(GetToken(ps)), "Assign to:") EXCEPT !.tgt = target],
                     <<IncDec(Cur(ps), target, Cur(GetToken(ps)).cat)>>)
    IN  Sync(NodeIf(Sync(GetToken(ps), Tup(ID_),
                         {";"} \cup FollowDl \cup additional_syncset, ID_),
                    var(Cur(GetToken(ps)).lex), var(Oslash)),
             Str(";"), FollowDl \cup additional_syncset, ID_)

\* one pass of the loop of _variable_list after its _sync(','): ps.node is var_type's
\* children so far
VariableNext(ps, syncset) ==
    IF IndependentId(ps)
    THEN Node(GetToken(ps), Append(ps.node, Atom(Cur(ps), "")))
    ELSE Sync(ps, Str("Independent ID"), syncset, ID_)

RECURSIVE VariableLoop(_, _)
VariableLoop(ps, last) ==
    IF ~(Cur(ps).lex = "," \/ IndependentId(ps)) THEN ps
    ELSE IF ps.pos = last THEN Spin(ps)
    ELSE VariableLoop(
           VariableNext(Sync(ps, Str(","), {",", ";"} \cup FirstDl \cup FollowDl, ID_),
                        {",", ";"} \cup FirstDl \cup FollowDl),
           ps.pos)

VariableList(ps) ==
    VariableLoop(NodeIf(Sync(ps, Tup(ID_), {",", ";"} \cup FirstDl \cup FollowDl, ID_),
                        <<Atom(Cur(ps), "")>>, <<>>),
                 0)

\* the loop of _declaration_list: ps.node is dl's children so far
RECURSIVE DeclarationLoop(_, _)
DeclarationLoop(ps, last) ==
    IF Cur(ps).lex \notin FirstDl THEN ps
    ELSE IF ps.pos = last THEN Spin(ps)
    ELSE DeclarationLoop(
           CheckForStarter(
             Sync([VariableList(GetToken(ps))
                      EXCEPT !.node = Append(ps.node, WithKids(Atom(Cur(ps), ""), @))],
                  Str(";"), FirstDl \cup FollowDl, ID_),
             "Declaration starter, Statement starter", FirstDl \cup FollowDl, ID_),
           ps.pos)

\* a '<dl>' or '<sl>' atom, located at the current token
ListAtom(label, ps) == Atom([lex |-> label, cat |-> "LIST", loc |-> Cur(ps).loc], "")

\* _declaration_list once its _check_for_starter is done
Declarations(ps) ==
    [DeclarationLoop(Node(ps, <<>>), 0) EXCEPT !.node = WithKids(ListAtom("<dl>", ps), @)]

DeclarationList(ps) ==
    Declarations(CheckForStarter(ps, "Declaration starter, Statement starter",
                                 FirstDl \cup FollowDl, ID_))

(***************************************************************************)
(* Statement lists nest (_statement_list -> _selection -> _block ->        *)
(* _statement_list ...).  The lists parse() has open are kept as a stack   *)
(* of frames, innermost last:                                              *)
(*   kind   what owns the list: main, if, else, while, repeat, block       *)
(*   head   the owner's atom with the children it has so far               *)
(*   outer  the owner's additional_syncset                                 *)
(*   addl   the additional_syncset of this _statement_list call            *)
(*   sl     the list's '<sl>' atom;  kids  the statements parsed so far    *)
(*   start  the token at which the current pass of the list's loop began   *)
(***************************************************************************)
\* _statement_list up to its loop
OpenList(ps, additional_syncset) ==
    CheckForStarter(ps, "Statement starter", FollowDl \cup additional_syncset, ID_)

\* _block up to the loop of its statement list
OpenBlock(ps, additional_syncset) ==
    OpenList(Sync(ps, Str("{"), FollowDl \cup additional_syncset, ID_), additional_syncset)

\* the frame of the list just opened: ps.node is its owner
Frame(kind, ps, outer, additional_syncset) ==
    [kind |-> kind, head |-> ps.node, outer |-> outer, addl |-> additional_syncset,
     kids |-> <<>>, start |-> 0, sl |-> ListAtom("<sl>", ps)]

\* the condition of _statement_list's while loop
MoreStatements(ps, additional_syncset) ==
    \/ Cur(ps).lex \in (IF "rompe" \in additional_syncset THEN FirstLoopSl ELSE FirstSl)
    \/ CheckIdNum(ps, Tup(ID_))

\* a loop body whose branches read no token
SkippedStatement(ps, additional_syncset) == Node(ps, NoneAtom)

\* the branches of the loop body that open no nested statement list
SimpleStatement(ps, additional_syncset) ==
    CASE Cur(ps).lex = "cin" -> CinStmt(ps, additional_syncset)
      [] Cur(ps).lex \in {"cout", "coutln"} -> CoutStmt(ps, additional_syncset)
      [] Cur(ps).lex = "rompe" -> BreakStmt(ps, additional_syncset)
      [] CheckIdNum(ps, Tup(ID_)) -> Assignment(ps, additional_syncset)
      [] Cur(ps).lex \in FirstUna -> Pre(ps, additional_syncset)

\* a _selection that lets its blocks hold a rompe as a loop does
BlockSyncsetOfLoops(starter, additional_syncset) ==
    additional_syncset \cup
        CASE starter = "if" -> {"else", "rompe"}
          [] starter = "while" -> {"rompe"}
          [] starter = "repeat" -> {"until", "rompe"}
          [] OTHER -> {}

\* the additional_syncset a statement gives its (first) _block
BlockSyncset(starter, additional_syncset) ==
    additional_syncset \cup
        CASE starter = "if" -> {"else"}
          [] starter = "while" -> {"rompe"}
          [] starter = "repeat" -> {"until", "rompe"}
          [] OTHER -> {}

\* the branches that do: the statement's head, then its block's list is opened
CompoundStatement(ps, additional_syncset) ==
    OpenBlock(CASE Cur(ps).lex = "if" -> SelectionHead(ps, additional_syncset)
                [] Cur(ps).lex = "while" -> IterationHead(ps, additional_syncset)
                [] Cur(ps).lex = "repeat" -> Node(GetToken(ps), Atom(Cur(ps), ""))
                [] Cur(ps).lex = "{" -> Node(ps, NoneAtom),
              BlockSyncset(Cur(ps).lex, additional_syncset))

\* the loop of a statement list after the _check_for_starter that ends a pass
Again(ps, last, additional_syncset) ==
    IF ps.pos = last /\ MoreStatements(ps, additional_syncset) THEN Spin(ps) ELSE ps

\* a statement is done (ps.node): the loop of the list it belongs to checks for a
\* starter and goes back to its head
EndStatement(ps, last, additional_syncset) ==
    Again(CheckForStarter(ps, "Statement starter", FollowDl \cup additional_syncset, ID_),
          last, additional_syncset)

\* the _sync('}') of _block
BlockEnd(ps, top) == Sync(ps, Str("}"), FollowDl \cup top.addl, ID_)

ElseFollows(ps, top) == top.kind = "if" /\ Cur(BlockEnd(ps, top)).lex = "else"

\* the innermost list's loop has ended: _block syncs on "}" and returns the list to
\* its owner, which opens its else block or is done itself, a statement of the list
\* under it
CloseBlock(ps, top, under) ==
    LET body == WithKids(top.sl, top.kids)
        whole == WithKids(top.head, Append(top.head.kids, body))
    IN  IF ElseFollows(ps, top)
        THEN OpenBlock(Node(GetToken(BlockEnd(ps, top)), whole), top.outer)
        ELSE EndStatement(
               IF top.kind = "repeat"
               THEN [RepetitionTail(BlockEnd(ps, top), top.outer)
                        EXCEPT !.node = WithKids(top.head, <<body, @>>)]
               ELSE Node(BlockEnd(ps, top), IF top.kind = "block" THEN body ELSE whole),
               under.start, under.addl)

\* Taurus.__init__
NewTaurus == [pos |-> 1, errs |-> <<>>, fatal |-> FALSE, spin |-> FALSE,
              ok |-> TRUE, node |-> NoneAtom]

\* _program once 'main' has been synced on, up to the loop of main's statement list
Program(ps, main) ==
    OpenList([DeclarationList(Sync(ps, Str("{"), FirstDl \cup FollowDl, ID_))
                 EXCEPT !.node = WithKids(Atom(main, IF ps.ok THEN "main" ELSE Oslash), <<@>>)],
             {})

\* parse(): the first _get_token, then _program
ProgramHead ==
    Program(Sync([NewTaurus EXCEPT !.fatal = (TokenAt(1).cat = "error")],
                 Str("main"), FirstDl \cup FirstSl, ID_),
            Cur([NewTaurus EXCEPT !.fatal = (TokenAt(1).cat = "error")]))

\* _program after main's statement list, once it has seen that tokens remain
\* a _program that takes the closing } for the end of the tokens
ProgramEndUnread(ps) ==
    IF ps.ok
    THEN [ps EXCEPT !.errs = Append(@, [kind |-> "after", loc |-> NoLoc, cat |-> "",
                                        lex |-> "", expected |-> Str("")])]
    ELSE ps

ProgramEnd(ps) ==
    IF ps.ok /\ Cur(ps).lex # ""
    THEN [ps EXCEPT !.errs = Append(@, [kind |-> "after", loc |-> NoLoc, cat |-> "",
                                        lex |-> "", expected |-> Str("")])]
    ELSE ps

ProgramTail(ps) ==
    IF Dead(ps) THEN ps
    ELSE IF Cur(ps).lex = ""
    THEN [ps EXCEPT !.errs = Append(@, [kind |-> "before", loc |-> NoLoc, cat |-> "",
                                        lex |-> "", expected |-> Str("")])]
    ELSE ProgramEnd(Sync(ps, Str("}"), {}, {}))

(***************************************************************************)
(* Taurus.parse(), one statement of the innermost open list per step.      *)
(***************************************************************************)
Top == frames[Len(frames)]

Parsing == phase = "parsing" /\ ~Dead(taurus) /\ frames # <<>>

CompoundStarters == {"if", "while", "repeat", "{"}

\* one pass of the loop body of _statement_list through a branch without a block
ParseStatement ==
    /\ Parsing
    /\ MoreStatements(taurus, Top.addl)
    /\ Cur(taurus).lex \notin CompoundStarters
    /\ taurus' = EndStatement(SimpleStatement(taurus, Top.addl), taurus.pos, Top.addl)
    /\ frames' = [frames EXCEPT ![Len(frames)].start = taurus.pos,
                                ![Len(frames)].kids = Append(@, taurus'.node)]
    /\ UNCHANGED <<input_file, commands, malcolm, walks, tokens, taurus_root, pilgrim_errors, symbol_table, prru_code,
                   iMem, dMem, reg, pm, raised, hang, op, phase>>

\* the loop body enters _selection, _iteration, _repetition or _block
ParseOpen ==
    /\ Parsing
    /\ MoreStatements(taurus, Top.addl)
    /\ Cur(taurus).lex \in CompoundStarters
    /\ taurus' = CompoundStatement(taurus, Top.addl)
    /\ frames' = Append([frames EXCEPT ![Len(frames)].start = taurus.pos],
                        Frame(IF Cur(taurus).lex = "{" THEN "block" ELSE Cur(taurus).lex,
                              taurus', Top.addl, BlockSyncset(Cur(taurus).lex, Top.addl)))
    /\ UNCHANGED <<input_file, commands, malcolm, walks, tokens, taurus_root, pilgrim_errors, symbol_table, prru_code,
                   iMem, dMem, reg, pm, raised, hang, op, phase>>

\* the loop of a nested list ends and its _block returns to the owning statement
ParseClose ==
    /\ Parsing
    /\ ~MoreStatements(taurus, Top.addl)
    /\ Top.kind # "main"
    /\ taurus' = CloseBlock(taurus, Top, frames[Len(frames) - 1])
    /\ frames' = IF ElseFollows(taurus, Top)
                 THEN [frames EXCEPT ![Len(frames)] = Frame("else", taurus', Top.outer,
                                                            Top.outer)]
                 ELSE [k \in 1..Len(frames) - 1 |->
                         IF k < Len(frames) - 1 THEN frames[k]
                         ELSE [frames[k] EXCEPT !.kids = Append(@, taurus'.node)]]
    /\ UNCHANGED <<input_file, commands, malcolm, walks, tokens, taurus_root, pilgrim_errors, symbol_table, prru_code,
                   iMem, dMem, reg, pm, raised, hang, op, phase>>

\* the loop of main's list ends: _program finishes and parse() assigns root
ParseEnd ==
    /\ Parsing
    /\ ~MoreStatements(taurus, Top.addl)
    /\ Top.kind = "main"
    /\ taurus' = ProgramTail(taurus)
    /\ IF Dead(taurus')
       THEN UNCHANGED <<input_file, commands, frames, taurus_root, phase>>
       ELSE /\ frames' = <<>>
            /\ taurus_root' = WithKids(Top.head,
                                 Append(Top.head.kids, WithKids(Top.sl, Top.kids)))
            /\ phase' = IF op = "parse" THEN "idle" ELSE "parsed"
    /\ UNCHANGED <<input_file, commands, malcolm, walks, tokens, pilgrim_errors, symbol_table, prru_code,
                   iMem, dMem, reg, pm, raised, hang, op>>

\* _get_token met an ERROR token and raised, or a loop never ends: the call is over
\* without parse() assigning root
ParseAbort ==
    /\ phase = "parsing"
    /\ Dead(taurus)
    /\ raised' = IF taurus.fatal THEN "LEXICAL_ERROR" ELSE "none"
    /\ hang' = taurus.spin
    /\ frames' = <<>>
    /\ phase' = "idle"
    /\ UNCHANGED <<input_file, commands, malcolm, walks, tokens, taurus, taurus_root, pilgrim_errors, symbol_table, prru_code,
                   iMem, dMem, reg, pm, op>>

\* an entry point is called: parse(), or walk(), degen() or evaluate(), which begin
\* with parse()
Call(entry) ==
    /\ phase = "idle"
    /\ ~hang
    /\ op' = entry
    /\ phase' = "parsing"
    /\ raised' = "none"
    /\ taurus' = ProgramHead
    /\ frames' = <<Frame("main", taurus', {}, {})>>
    /\ pilgrim_errors' = IF entry = "parse" THEN pilgrim_errors ELSE <<>>
    /\ symbol_table' = IF entry = "parse" THEN symbol_table ELSE <<>>
    /\ prru_code' = IF entry \in {"degen", "evaluate"} THEN <<>> ELSE prru_code
    /\ malcolm' = IF entry \in {"degen", "evaluate"} THEN NewMalcolm ELSE malcolm
    /\ UNCHANGED <<input_file, commands, walks, tokens, taurus_root, iMem, dMem, reg, pm, hang>>

(***************************************************************************)
(* Python values, as the analyzer folds them and the PM holds them:        *)
(* int, bool (an int to isinstance), float and str.  A float is the exact  *)
(* fraction n/d; d = 0 encodes inf (n = 1), -inf (n = -1) and nan (n = 0). *)
(***************************************************************************)
RECURSIVE GCD(_, _)
GCD(a, b) == IF b = 0 THEN a ELSE GCD(b, a % b)

Abs(n) == IF n < 0 THEN -n ELSE n

Sgn(n) == IF n < 0 THEN -1 ELSE IF n > 0 THEN 1 ELSE 0

IntV(n) == [t |-> "int", n |-> n, d |-> 1, s |-> ""]

BoolV(b) == [t |-> "bool", n |-> IF b THEN 1 ELSE 0, d |-> 1, s |-> ""]

StrV(s) == [t |-> "str", n |-> 0, d |-> 1, s |-> s]

RealV(n, d) ==
    LET g == GCD(Abs(n), Abs(d))
    IN  IF d = 0 THEN [t |-> "real", n |-> Sgn(n), d |-> 0, s |-> ""]
        ELSE [t |-> "real", n |-> (n * Sgn(d)) \div g, d |-> Abs(d) \div g, s |-> ""]

\* the value operators raise TypeError on operands they do not take
TypeError == [t |-> "TypeError", n |-> 0, d |-> 1, s |-> ""]

\* isinstance(v, int): True for bool as well
IsInt(v) == v.t \in {"int", "bool"}

\* an int(x) that rounds down
TruncDown(n, d) == n \div d

\* int(x) of a float: truncation toward zero
Trunc(n, d) == Sgn(n) * (Abs(n) \div d)

RECURSIVE Repeat(_, _)
Repeat(s, k) ==
    LET half == Repeat(s, k \div 2)
    IN  IF k <= 0 THEN "" ELSE IF k % 2 = 0 THEN half \o half ELSE s \o half \o half

\* x < y of Python on two numbers
Less(x, y) ==
    /\ ~(x.d = 0 /\ x.n = 0) /\ ~(y.d = 0 /\ y.n = 0)
    /\ IF x.d = 0 /\ y.d = 0 THEN x.n < y.n ELSE x.n * y.d < y.n * x.d

\* a <operator> b of Python on these values, operator given by its lexeme
Arith(operator, a, b) ==
    LET both_int == IsInt(a) /\ IsInt(b)
        nan  == (a.d = 0 /\ a.n = 0) \/ (b.d = 0 /\ b.n = 0)
        num(n, d) == IF both_int THEN IntV(n \div d) ELSE RealV(n, d)
        sum(x, y) == IF x.d = 0 /\ y.d = 0
                     THEN RealV(IF x.n = y.n THEN x.n ELSE 0, 0)
                     ELSE IF x.d = 0 THEN x ELSE IF y.d = 0 THEN y
                     ELSE num(x.n * y.d + y.n * x.d, x.d * y.d)
        eq(x, y) == ~nan /\ x.n = y.n /\ x.d = y.d
    IN  IF a.t = "str" \/ b.t = "str"
        THEN CASE operator = "+" /\ a.t = b.t -> StrV(a.s \o b.s)
               [] operator = "*" /\ IsInt(b) -> StrV(Repeat(a.s, b.n))
               [] operator = "*" /\ IsInt(a) -> StrV(Repeat(b.s, a.n))
               [] operator = "==" -> BoolV(a.t = b.t /\ a.s = b.s)
               [] operator = "!=" -> BoolV(~(a.t = b.t /\ a.s = b.s))
               [] OTHER -> TypeError
        ELSE CASE operator = "+" -> sum(a, b)
               [] operator = "-" -> sum(a, [b EXCEPT !.n = -b.n])
               [] operator = "*" -> num(a.n * b.n, a.d * b.d)
               [] operator = "/" ->
                    IF both_int THEN IntV(Trunc(a.n * Sgn(b.n), Abs(b.n)))
                    ELSE RealV(a.n * b.d * Sgn(b.n), a.d * Abs(b.n))
               [] operator = "<" -> BoolV(Less(a, b))
               [] operator = ">" -> BoolV(Less(b, a))
               [] operator = "<=" -> BoolV(Less(a, b) \/ eq(a, b))
               [] operator = ">=" -> BoolV(Less(b, a) \/ eq(a, b))
               [] operator = "==" -> BoolV(eq(a, b))
               [] operator = "!=" -> BoolV(~eq(a, b))

\* the value of a decimal digit, -1 for any other character
Digit(c) ==
    CASE c = "0" -> 0 [] c = "1" -> 1 [] c = "2" -> 2 [] c = "3" -> 3 [] c = "4" -> 4
      [] c = "5" -> 5 [] c = "6" -> 6 [] c = "7" -> 7 [] c = "8" -> 8 [] c = "9" -> 9
      [] OTHER -> -1

\* the number a string of digits denotes after acc, -1 when it is not all digits
RECURSIVE Digits(_, _)
Digits(s, acc) ==
    IF s = "" THEN acc
    ELSE IF Digit(Head(s)) < 0 THEN -1
    ELSE Digits(Tail(s), 10 * acc + Digit(Head(s)))

\* the position of the first "." of s from i on, 0 when it has none
RECURSIVE DotAt(_, _)
DotAt(s, i) == IF i > Len(s) THEN 0 ELSE IF SubSeq(s, i, i) = "." THEN i ELSE DotAt(s, i + 1)

ValueError(s) == [t |-> "ValueError", n |-> 0, d |-> 1, s |-> s]

\* int(s) and float(s) of a str on plain decimal text: [-]digits for both, and
\* for float a "." before, after or between digits; anything else raises ValueError
Number(s, as_float) ==
    LET neg  == s # "" /\ Head(s) = "-"
        body == IF neg THEN Tail(s) ELSE s
        dot  == DotAt(body, 1)
        whole == Digits(SubSeq(body, 1, IF dot = 0 THEN Len(body) ELSE dot - 1), 0)
        frac  == Digits(SubSeq(body, dot + 1, Len(body)), 0)
        places == Len(body) - dot
        sign == IF neg THEN -1 ELSE 1
    IN  IF body = "" \/ whole < 0 THEN ValueError(s)
        ELSE IF dot = 0
        THEN (IF as_float THEN RealV(sign * whole, 1) ELSE IntV(sign * whole))
        ELSE IF ~as_float \/ body = "." \/ frac < 0 THEN ValueError(s)
        ELSE RealV(sign * (whole * Pow10(places) + frac), Pow10(places))


(***************************************************************************)
(* Pilgrim (semiotics.py).  The analyzer's state while it evaluates is     *)
(* st = [errors, table, raised, ok, val]; the symbol table is the list of  *)
(* its entries in insertion order, each [id, mem_location, location, val,  *)
(* typex]; ok is what the last _check_in_tabledance returned and val what  *)
(* the last _eval_* returned.                                              *)
(***************************************************************************)
\* the index of lexeme's entry, 0 when "lexeme in self.symbol_table" is False
Entry(table, lexeme) ==
    LET hits == {k \in 1..Len(table) : table[k].id = lexeme}
    IN  IF hits = {} THEN 0 ELSE CHOOSE k \in hits : TRUE

StartsWith(lexeme, prefix) ==
    Len(lexeme) >= Len(prefix) /\ SubSeq(lexeme, 1, Len(prefix)) = prefix

\* Pilgrim._add_error: a message already in the list is not added again.  A message
\* is told by its label, its location and, where it has them, its token and type
SemError(st, kind, location, category, lexeme) ==
    LET msg == [kind |-> kind, loc |-> location, cat |-> category, lex |-> lexeme]
    IN  IF \E k \in 1..Len(st.errors) : st.errors[k] = msg THEN st
        ELSE [st EXCEPT !.errors = Append(@, msg)]

AddLocation(st, lexeme, location) ==
    LET k == Entry(st.table, lexeme)
    IN  IF \E j \in 1..Len(st.table[k].location) : st.table[k].location[j] = location
        THEN st
        ELSE [st EXCEPT !.table[k].location = Append(@, location)]

\* an entry one location further on, as if the counter started at 0
IdInfoFromOne(atom, typex, mem_location) ==
    [id |-> atom.lex, mem_location |-> mem_location + 1, location |-> <<atom.loc>>,
     typex |-> typex,
     val |-> CASE typex = "int" -> IntV(0)
               [] typex = "real" -> RealV(0, 1)
               [] typex = "boolean" -> BoolV(FALSE)]

\* IdInfo.__init__
IdInfo(atom, typex, mem_location) ==
    [id |-> atom.lex, mem_location |-> mem_location, location |-> <<atom.loc>>,
     typex |-> typex,
     val |-> CASE typex = "int" -> IntV(0)
               [] typex = "real" -> RealV(0, 1)
               [] typex = "boolean" -> BoolV(FALSE)]

\* _eval_type over the ID atoms of one declaration, then over the declarations;
\* self._mem_location is one less than the number of entries
RECURSIVE EvalType(_, _, _)
EvalType(st, declarations, k) ==
    LET type == declarations[1]
        atom == type.kids[k]
    IN  IF declarations = <<>> THEN st
        ELSE IF k > Len(type.kids) THEN EvalType(st, Tail(declarations), 1)
        ELSE IF atom.cat # "ID" THEN EvalType(st, declarations, k + 1)
        ELSE IF Entry(st.table, atom.lex) # 0
        THEN EvalType(SemError(st, "Variable was already declared", atom.loc, atom.cat, atom.lex),
                      declarations, k + 1)
        ELSE EvalType([st EXCEPT !.table = Append(@, IdInfo(atom, type.lex, Len(st.table)))],
                      declarations, k + 1)

\* the identifier an atom names: the target of 'Assign to: x' and 'cin: x'
NameOf(atom) == IF atom.lex \in {"Assign to:", "cin:"} THEN atom.tgt ELSE atom.lex

CheckInTabledance(st, atom) ==
    IF Entry(st.table, NameOf(atom)) # 0 THEN [st EXCEPT !.ok = TRUE]
    ELSE [SemError(st, "Variable was not declared", atom.loc, atom.cat, NameOf(atom))
             EXCEPT !.ok = FALSE]

NoneV == [t |-> "None", n |-> 0, d |-> 1, s |-> ""]

\* "return val"
Val(st, val) == [st EXCEPT !.val = val]

\* x == 0 of Python on a number
IsZero(val) == val.n = 0 /\ val.d # 0

RECURSIVE EvalIdNumOp(_, _)

\* a folding that yields the infinity of a division by zero without reporting it
OperateQuietly(st, atom, temp) ==
    IF atom.lex = "/" /\ IsZero(st.val) THEN Val(st, RealV(1, 0))
    ELSE Val(st, Arith(atom.lex, temp, st.val))

\* the return of _eval_op for a binary operator whose operands are evaluated: temp is
\* the left one's value, st.val the right one's
Operate(st, atom, temp) ==
    IF atom.lex = "/" /\ IsZero(st.val)
    THEN Val(SemError(st, "Division by zero", atom.kids[2].loc, "", ""), RealV(1, 0))
    ELSE Val(st, Arith(atom.lex, temp, st.val))

\* _eval_op with the left operand evaluated (left.val)
RightOperand(left, atom) == Operate(EvalIdNumOp(left, atom.kids[2]), atom, left.val)

\* _eval_op on the atoms the parser builds for a tree without syntax errors: a sign
\* over one child, or one of + - * / < <= > >= == != over two
EvalOp(st, atom) ==
    IF Len(atom.kids) = 1
    THEN [EvalIdNumOp(st, atom.kids[1])
             EXCEPT !.val = IF atom.lex = "-" THEN Arith("-", IntV(0), @) ELSE @]
    ELSE RightOperand(EvalIdNumOp(st, atom.kids[1]), atom)

EvalIdNumOp(st, atom) ==
    LET known == CheckInTabledance(st, atom)
    IN  CASE atom.cat = "INT" -> Val(st, Number(atom.lex, FALSE))
          [] atom.cat = "REAL" -> Val(st, Number(atom.lex, TRUE))
          [] atom.cat = "BOOLEAN" -> Val(st, BoolV(atom.lex = "True"))
          [] atom.cat = "ID" ->
               IF ~known.ok THEN Val(known, IntV(0))
               ELSE Val(IF atom.inc_dec THEN known
                        ELSE AddLocation(known, atom.lex, atom.loc),
                        st.table[Entry(st.table, atom.lex)].val)
          [] atom.cat = "OP" /\ Len(atom.kids) \in {1, 2} -> EvalOp(st, atom)
          [] OTHER -> Val(st, NoneV)

\* _eval_condition: the truth value of a bare condition
EvalCondition(st, atom) ==
    [EvalIdNumOp(st, atom)
        EXCEPT !.val = IF atom.cat = "ID" /\ Entry(st.table, atom.lex) = 0 THEN BoolV(FALSE)
                       ELSE IF atom.cat = "BOOLEAN" THEN BoolV(atom.lex # "False")
                       ELSE BoolV(~IsZero(@))]

\* PostOrderIter: every atom of the subtree, children before their parent
RECURSIVE PostOrderIter(_)
PostOrderIter(atom) ==
    LET RECURSIVE over(_)
        over(children) == IF children = <<>> THEN <<>>
                          ELSE PostOrderIter(children[1]) \o over(Tail(children))
    IN  Append(over(atom.kids), atom)

\* _eval_assignment
EvalAssignment(typex, val) == IF typex = "int" THEN IsInt(val) ELSE val.t = "bool"

\* the assignment branch of _eval_value once the right-hand side is evaluated (st.val)
\* an assignment that notes the location and leaves the folded value out of the table
AssignUnrecorded(st, atom, k) == AddLocation(st, atom.tgt, atom.loc)

Assign(st, atom, k) ==
    AddLocation(
      IF st.table[k].typex = "real"
      THEN [st EXCEPT !.table[k].val = RealV(st.val.n, st.val.d)]
      ELSE IF EvalAssignment(st.table[k].typex, st.val)
      THEN [st EXCEPT !.table[k].val = st.val]
      ELSE SemError(st, "Expected type:", atom.kids[1].loc, "", st.table[k].typex),
      atom.tgt, atom.loc)

\* the branch of _eval_value's loop body an atom takes
EvalAtom(st, atom) ==
    LET known == CheckInTabledance(st, atom)
    IN  CASE atom.cat = "OP" -> EvalIdNumOp(st, atom)
          [] atom.cat # "OP" /\ StartsWith(atom.lex, "Assign to:") ->
               IF known.ok
               THEN Assign(EvalIdNumOp(known, atom.kids[1]), atom, Entry(st.table, atom.tgt))
               ELSE known
          [] atom.cat # "OP" /\ atom.lex \in {"if", "while"} /\ atom.kids[1].lex \notin FirstRel ->
               EvalCondition(st, atom.kids[1])
          [] atom.cat # "OP" /\ atom.lex = "repeat" /\ atom.kids[2].lex \notin FirstRel ->
               EvalCondition(st, atom.kids[2])
          [] atom.cat # "OP" /\ atom.lex \in {"cout", "coutln"} /\ atom.kids[1].cat = "ID" ->
               EvalIdNumOp(st, atom.kids[1])
          [] atom.cat # "OP" /\ StartsWith(atom.lex, "cin") ->
               IF ~known.ok THEN known
               ELSE IF atom.lex = "cin:" THEN AddLocation(known, atom.tgt, atom.id_loc)
               ELSE [st EXCEPT !.raised = "AttributeError"]
          [] OTHER -> st

\* _eval_value: the atoms of the statement list in post-order, until one raises
RECURSIVE EvalValue(_, _)
EvalValue(st, atoms) ==
    IF atoms = <<>> \/ st.raised # "none" THEN st
    ELSE EvalValue(EvalAtom(st, atoms[1]), Tail(atoms))

\* a walk() that starts from the table the walk before it left
PilgrimKeepingTable ==
    [errors |-> <<>>, table |-> IF walks = <<>> THEN <<>> ELSE walks[Len(walks)].table,
     raised |-> "none", ok |-> TRUE, val |-> NoneV]

\* Pilgrim.__init__, and what walk() clears
NewPilgrim == [errors |-> <<>>, table |-> <<>>, raised |-> "none", ok |-> TRUE, val |-> NoneV]

\* a walk() that evaluates the declarations whatever the parser reported
WalkUnchecked(root, syntax_errors) == EvalType(NewPilgrim, root.kids[1].kids, 1)

\* walk() once parse() has returned: the refusal on syntax errors, then _eval
Walk(root, syntax_errors) ==
    IF syntax_errors # <<>> THEN [NewPilgrim EXCEPT !.raised = "SYNTAX_ERRORS_REMAIN"]
    ELSE EvalValue(EvalType(NewPilgrim, root.kids[1].kids, 1), PostOrderIter(root.kids[2]))

\* Pilgrim.walk(), the part after its call of parse()
WalkAfterParse ==
    /\ phase = "parsed"
    /\ \E st \in {Walk(taurus_root, taurus.errs)} :
         /\ pilgrim_errors' = st.errors
         /\ symbol_table' = st.table
         /\ raised' = st.raised
         /\ phase' = IF st.raised # "none" \/ op = "walk" THEN "idle" ELSE "walked"
         /\ walks' = (IF walks = <<>> THEN <<>> ELSE <<walks[Len(walks)]>>)
                        \o <<[table |-> st.table, errors |-> st.errors,
                              raised |-> st.raised]>>
    /\ UNCHANGED <<input_file, commands, malcolm, tokens, taurus, frames, taurus_root, prru_code, iMem, dMem, reg, pm,
                   hang, op>>

(***************************************************************************)
(* Malcolm (prru_code.py).  The generator's state while it emits is        *)
(* g = [code, pulga, highEmitLoc, tmpOffset, break, break_loc, raised,     *)
(* locals]; a line of the listing is [loc, op, regs, c], a comment line    *)
(* has op "*".  locals holds loc1, loc2 and current_loc of the _gen_if,    *)
(* _gen_bruce_while and _gen_repeat calls in progress, innermost last.     *)
(* TraceCode is left at True, as __init__ sets it.                         *)
(***************************************************************************)
pc == 7
mp == 6
gp == 5
ac == 0
ac1 == 1

\* the emit procedures are followed up to this many lines and locations
MaxEmit == 3

\* pulga moves by how_many, then update_high
Advance(g, how_many) ==
    [g EXCEPT !.pulga = @ + how_many,
              !.highEmitLoc = IF @ < g.pulga + how_many THEN g.pulga + how_many ELSE @]

emit_comment(g, c) ==
    IF g.raised # "none" THEN g
    ELSE [g EXCEPT !.code = Append(@, [loc |-> -1, op |-> "*", regs |-> "", c |-> c])]

emit_ro(g, opcode, r, s, t, c) ==
    IF g.raised # "none" THEN g
    ELSE Advance([g EXCEPT !.code = Append(@,
             [loc |-> g.pulga, op |-> opcode, c |-> c,
              regs |-> ToString(r) \o "," \o ToString(s) \o "," \o ToString(t)])], 1)

\* d is the text the f-string puts for the offset: a constant's lexeme or an int
emit_rm(g, opcode, r, d, s, c) ==
    IF g.raised # "none" THEN g
    ELSE Advance([g EXCEPT !.code = Append(@,
             [loc |-> g.pulga, op |-> opcode, c |-> c,
              regs |-> ToString(r) \o "," \o d \o "(" \o ToString(s) \o ")"])], 1)

\* the value of a local of the innermost call in progress, or of self._break_loc
Local(g, name) ==
    IF name = "_break_loc" THEN g.break_loc ELSE g.locals[Len(g.locals)][name]

\* name = self.emit_skip(how_many): the position before the skip
emit_skip(g, how_many, name) ==
    IF g.raised # "none" THEN g
    ELSE IF name = "_break_loc" THEN [Advance(g, how_many) EXCEPT !.break_loc = g.pulga]
    ELSE [Advance(g, how_many) EXCEPT !.locals[Len(g.locals)][name] = g.pulga]

\* an emit_backup that goes to any location
emit_backup_anywhere(g, name) ==
    IF g.raised # "none" THEN g ELSE [g EXCEPT !.pulga = Local(g, name)]

\* self.emit_backup(name)
emit_backup(g, name) ==
    IF g.raised # "none" THEN g
    ELSE IF Local(g, name) > g.highEmitLoc THEN [g EXCEPT !.raised = "BUG in emitBackup"]
    ELSE [g EXCEPT !.pulga = Local(g, name)]

emit_restore(g) == IF g.raised # "none" THEN g ELSE [g EXCEPT !.pulga = g.highEmitLoc]

\* an emit_rm_abs that takes the displacement from the instruction itself
emit_rm_abs_from_here(g, opcode, r, name, plus, c) ==
    emit_rm(g, opcode, r, ToString(Local(g, name) + plus - g.pulga), pc, c)

\* self.emit_rm_abs(opcode, r, name + plus, c)
emit_rm_abs(g, opcode, r, name, plus, c) ==
    emit_rm(g, opcode, r, ToString(Local(g, name) + plus - (g.pulga + 1)), pc, c)

\* a _gen_cmp whose branch skips one instruction only, into the false case's jump
_gen_cmp_short(g, opcode, operator) ==
    emit_rm(emit_rm(emit_rm(emit_rm(emit_ro(g, "SUB", ac, ac1, ac, "op " \o operator),
                                    opcode, ac, "1", pc, "br if true"),
                            "LDC", ac, "0", ac, "false case"),
                    "LDA", pc, "1", pc, "unconditional jump"),
            "LDC", ac, "1", ac, "true case")

_gen_cmp(g, opcode, operator) ==
    emit_rm(emit_rm(emit_rm(emit_rm(emit_ro(g, "SUB", ac, ac1, ac, "op " \o operator),
                                    opcode, ac, "2", pc, "br if true"),
                            "LDC", ac, "0", ac, "false case"),
                    "LDA", pc, "1", pc, "unconditional jump"),
            "LDC", ac, "1", ac, "true case")

\* symbol_table[lexeme].mem_location
_dir_in_tabledance(table, atom) == table[Entry(table, NameOf(atom))].mem_location

\* the opcode gen_exp emits for a binary operator's lexeme
Opcode(lexeme) ==
    CASE lexeme = "+" -> "ADD" [] lexeme = "-" -> "SUB" [] lexeme = "*" -> "MUL"
      [] lexeme = "/" -> "DIV" [] lexeme = "<" -> "JLT" [] lexeme = "<=" -> "JLE"
      [] lexeme = ">" -> "JGT" [] lexeme = ">=" -> "JGE" [] lexeme = "==" -> "JEQ"
      [] lexeme = "!=" -> "JNE"

RECURSIVE gen_exp(_, _, _)

\* a gen_exp that keeps every left operand in the one temporary at tmpOffset
gen_exp_one_temp(g, table, atom) ==
    LET const == IF atom.lex = "True" THEN "1" ELSE IF atom.lex = "False" THEN "0"
                 ELSE atom.lex
        left(h) == IF Len(atom.kids) = 2 THEN gen_exp(h, table, atom.kids[1])
                   ELSE emit_rm(h, "LDC", ac, "0", ac, "load 0 in ac for sign operatios")
        push(h) == emit_rm(h, "ST", ac, ToString(h.tmpOffset), mp, "op: push left operand")
        pop(h)  == emit_rm(h, "LD", ac1, ToString(h.tmpOffset), mp, "op: load left operand")
        operate(h) == IF Len(atom.kids) = 2 /\ atom.lex \in FirstRel
                      THEN _gen_cmp(h, Opcode(atom.lex), atom.lex)
                      ELSE IF Len(atom.kids) = 2 \/ atom.lex \in FirstAdd
                      THEN emit_ro(h, Opcode(atom.lex), ac, ac1, ac, "op " \o atom.lex)
                      ELSE h
    IN  CASE atom.cat \in {"INT", "REAL", "BOOLEAN"} ->
               emit_comment(emit_rm(emit_comment(g, "-> Const"),
                                    "LDC", ac, const, 0, "Load const"), "<- Const")
          [] atom.cat = "ID" ->
               emit_comment(emit_rm(emit_comment(g, "-> Id"), "LD", ac,
                                    ToString(_dir_in_tabledance(table, atom)), gp,
                                    "Load ID value"), "<- Id")
          [] atom.cat \notin {"INT", "REAL", "BOOLEAN", "ID"}
                /\ atom.lex \in FirstRel \cup FirstAdd \cup FirstMul ->
               IF Len(atom.kids) \notin {1, 2}
               THEN emit_comment(emit_comment(g, "-> Op"), "<- Op")
               ELSE emit_comment(
                      operate(pop(gen_exp(push(left(emit_comment(g, "-> Op"))), table,
                                          atom.kids[Len(atom.kids)]))),
                      "<- Op")
          [] OTHER -> g

gen_exp(g, table, atom) ==
    LET const == IF atom.lex = "True" THEN "1" ELSE IF atom.lex = "False" THEN "0"
                 ELSE atom.lex
        left(h) == IF Len(atom.kids) = 2 THEN gen_exp(h, table, atom.kids[1])
                   ELSE emit_rm(h, "LDC", ac, "0", ac, "load 0 in ac for sign operatios")
        push(h) == [emit_rm(h, "ST", ac, ToString(h.tmpOffset), mp, "op: push left operand")
                       EXCEPT !.tmpOffset = @ - 1]
        pop(h)  == emit_rm([h EXCEPT !.tmpOffset = @ + 1], "LD", ac1,
                           ToString(h.tmpOffset + 1), mp, "op: load left operand")
        operate(h) == IF Len(atom.kids) = 2 /\ atom.lex \in FirstRel
                      THEN _gen_cmp(h, Opcode(atom.lex), atom.lex)
                      ELSE IF Len(atom.kids) = 2 \/ atom.lex \in FirstAdd
                      THEN emit_ro(h, Opcode(atom.lex), ac, ac1, ac, "op " \o atom.lex)
                      ELSE h
    IN  CASE atom.cat \in {"INT", "REAL", "BOOLEAN"} ->
               emit_comment(emit_rm(emit_comment(g, "-> Const"),
                                    "LDC", ac, const, 0, "Load const"), "<- Const")
          [] atom.cat = "ID" ->
               emit_comment(emit_rm(emit_comment(g, "-> Id"), "LD", ac,
                                    ToString(_dir_in_tabledance(table, atom)), gp,
                                    "Load ID value"), "<- Id")
          [] atom.cat \notin {"INT", "REAL", "BOOLEAN", "ID"}
                /\ atom.lex \in FirstRel \cup FirstAdd \cup FirstMul ->
               IF Len(atom.kids) \notin {1, 2}
               THEN emit_comment(emit_comment(g, "-> Op"), "<- Op")
               ELSE emit_comment(
                      operate(pop(gen_exp(push(left(emit_comment(g, "-> Op"))), table,
                                          atom.kids[Len(atom.kids)]))),
                      "<- Op")
          [] OTHER -> g

\* a call of _gen_if, _gen_bruce_while or _gen_repeat begins, and returns
Enter(g) == [g EXCEPT !.locals = Append(@, [loc1 |-> 0, loc2 |-> 0, current_loc |-> 0])]

Leave(g) == [g EXCEPT !.locals = SubSeq(@, 1, Len(@) - 1)]

\* current_loc = emit_skip(0); emit_backup(name); emit_rm_abs(opcode, r, current_loc + plus, c)
Backpatch(g, name, opcode, r, plus, c) ==
    emit_rm_abs(emit_backup(emit_skip(g, 0, "current_loc"), name),
                opcode, r, "current_loc", plus, c)

RECURSIVE gent_stmt(_, _, _)

\* a _gen_if that jumps over the then part when the condition holds
_gen_if_inverted(g, table, atom) ==
    LET hole(h) == IF Len(atom.kids) # 3 THEN h
                   ELSE emit_comment(emit_skip(h, 1, "loc2"),
                                     "if: jump after else belongs here")
        else_part(h) ==
            IF Len(atom.kids) # 3 THEN h
            ELSE emit_restore(Backpatch(gent_stmt(h, table, atom.kids[3].kids),
                                        "loc2", "LDA", pc, 0, "jmp to after else"))
        then == gent_stmt(
                  emit_comment(
                    emit_skip(gen_exp(emit_comment(Enter(g), "-> if"), table, atom.kids[1]),
                              1, "loc1"),
                    "if: jump after then belongs here"),
                  table, atom.kids[2].kids)
    IN  Leave(emit_comment(
          else_part(emit_restore(Backpatch(hole(then), "loc1", "JNE", ac, 0,
                                           "if: jmp to after then"))),
          "<- if"))

_gen_if(g, table, atom) ==
    LET hole(h) == IF Len(atom.kids) # 3 THEN h
                   ELSE emit_comment(emit_skip(h, 1, "loc2"),
                                     "if: jump after else belongs here")
        else_part(h) ==
            IF Len(atom.kids) # 3 THEN h
            ELSE emit_restore(Backpatch(gent_stmt(h, table, atom.kids[3].kids),
                                        "loc2", "LDA", pc, 0, "jmp to after else"))
        then == gent_stmt(
                  emit_comment(
                    emit_skip(gen_exp(emit_comment(Enter(g), "-> if"), table, atom.kids[1]),
                              1, "loc1"),
                    "if: jump after then belongs here"),
                  table, atom.kids[2].kids)
    IN  Leave(emit_comment(
          else_part(emit_restore(Backpatch(hole(then), "loc1", "JEQ", ac, 0,
                                           "if: jmp to after then"))),
          "<- if"))

\* the jump of a pending rompe, patched into the hole _gen_break reserved
BreakJump(g, plus) ==
    IF ~g.break THEN g
    ELSE [emit_rm_abs(emit_backup(g, "_break_loc"), "LDA", pc, "current_loc", plus,
                      "rompe jump")
             EXCEPT !.break = FALSE]

_gen_bruce_while(g, table, atom) ==
    LET body == gent_stmt(
                  emit_skip(gen_exp(emit_skip(emit_comment(Enter(g), "-> while"), 0, "loc1"),
                                    table, atom.kids[1]),
                            1, "loc2"),
                  table, atom.kids[2].kids)
    IN  Leave(emit_comment(
          emit_rm_abs(
            emit_restore(BreakJump(Backpatch(body, "loc2", "JEQ", ac, 1,
                                             "jmp to after while"), 1)),
            "LDA", pc, "loc1", 0, "jmp to expression"),
          "<- while"))

\* a drain of the rompe that jumps to the closing jump of the loop, not past it
RepeatBreakOntoJump(g) ==
    IF g.raised # "none" \/ ~g.break THEN g
    ELSE emit_restore(BreakJump(emit_skip(g, 0, "current_loc"), 0))

\* the "if self._break" of _gen_repeat; its loc2 is current_loc here
RepeatBreak(g) ==
    IF g.raised # "none" \/ ~g.break THEN g
    ELSE emit_restore(BreakJump(emit_skip(g, 0, "current_loc"), 1))

_gen_repeat(g, table, atom) ==
    LET body == gent_stmt(emit_skip(emit_comment(Enter(g), "-> repeat"), 0, "loc1"),
                          table, atom.kids[1].kids)
    IN  Leave(emit_comment(
          emit_rm_abs(RepeatBreak(gen_exp(body, table, atom.kids[2])),
                      "JEQ", ac, "loc1", 0, "repeat: jmp back to body"),
          "<- repeat"))

_gen_cin(g, table, atom) ==
    emit_rm(emit_ro(g, "IN", ac, 0, 0, "-> read"), "ST", ac,
            ToString(_dir_in_tabledance(table, atom)), gp, "<- read")

\* _gen_cout and _gen_coutln
_gen_cout(g, table, atom, opcode) ==
    emit_ro(gen_exp(g, table, atom.kids[1]), opcode, ac, 0, 0, "-> write")

_gen_assignment(g, table, atom) ==
    emit_comment(
      emit_rm(gen_exp(emit_comment(g, "-> assignment"), table, atom.kids[1]), "ST", ac,
              ToString(_dir_in_tabledance(table, atom)), gp, "assignment: store value"),
      "<- assignment")

_gen_break(g) ==
    IF g.raised # "none" THEN g ELSE [emit_skip(g, 1, "_break_loc") EXCEPT !.break = TRUE]

\* gent_stmt over the children of a list atom; a raise ends it
gent_stmt(g, table, children) ==
    LET atom == children[1]
        next(h) == gent_stmt(h, table, Tail(children))
    IN  IF children = <<>> \/ g.raised # "none" THEN g
        ELSE next(CASE atom.lex = "if" -> _gen_if(g, table, atom)
                    [] atom.lex = "while" -> _gen_bruce_while(g, table, atom)
                    [] atom.lex = "repeat" -> _gen_repeat(g, table, atom)
                    [] StartsWith(atom.lex, "cin") -> _gen_cin(g, table, atom)
                    [] atom.lex = "cout" -> _gen_cout(g, table, atom, "OUT")
                    [] atom.lex = "coutln" -> _gen_cout(g, table, atom, "OUTLN")
                    [] atom.lex = "<sl>" -> gent_stmt(g, table, atom.kids)
                    [] StartsWith(atom.lex, "Assign to:") -> _gen_assignment(g, table, atom)
                    [] atom.lex = "rompe" -> _gen_break(g)
                    [] OTHER -> g)

\* gen_exp rewrites the lexeme of the BOOLEAN atoms it meets
RECURSIVE Lowered(_)
Lowered(atom) ==
    [atom EXCEPT !.lex = IF atom.cat # "BOOLEAN" THEN @
                         ELSE IF @ = "True" THEN "1" ELSE IF @ = "False" THEN "0" ELSE @,
                 !.kids = [k \in 1..Len(atom.kids) |-> Lowered(atom.kids[k])]]

\* a degen() that emits whatever the analyzer reported
DegenUnchecked(root, table, semantic_errors) ==
    emit_ro(emit_comment(NewMalcolm, "Standard prelude:"), "HALT", 0, 0, 0, "")

\* a degen() that refuses on errors only and lets warnings pass
DegenPassingWarnings(root, table, semantic_errors) ==
    IF \E k \in 1..Len(semantic_errors) : semantic_errors[k].kind # "Expected type:"
    THEN [NewMalcolm EXCEPT !.raised = "SEMANTIC_ERRORS_REMAIN"]
    ELSE DegenUnchecked(root, table, semantic_errors)

\* degen() once walk() has returned: the refusal on semantic errors, then the listing
Degen(root, table, semantic_errors) ==
    LET temp == IF Len(root.kids) = 2 THEN root.kids[2].kids
                ELSE IF Len(root.kids) = 1 /\ root.kids[1].lex = "<sl>"
                THEN root.kids[1].kids
                ELSE <<>>
    IN  IF semantic_errors # <<>> THEN [NewMalcolm EXCEPT !.raised = "SEMANTIC_ERRORS_REMAIN"]
        ELSE emit_ro(
               emit_comment(
                 gent_stmt(
                   emit_comment(
                     emit_rm(emit_rm(emit_comment(NewMalcolm, "Standard prelude:"),
                                     "LD", mp, "0", ac, "load maxaddress from location 0"),
                             "ST", ac, "0", ac, "clear location 0"),
                     "End of standard prelude"),
                   table, temp),
                 "End of execution"),
               "HALT", 0, 0, 0, "")

\* the generator as the model's operators take it, and as they leave it
Generator == [malcolm EXCEPT !.code = prru_code]

Emitted(g) ==
    /\ malcolm' = [g EXCEPT !.code = <<>>]
    /\ prru_code' = g.code
    /\ raised' = g.raised

\* Malcolm.degen(), the part after its call of walk()
DegenAfterWalk ==
    /\ phase = "walked"
    /\ \E g \in {Degen(taurus_root, symbol_table, pilgrim_errors)} :
         /\ Emitted(g)
         /\ phase' = IF op = "evaluate" /\ g.raised = "none" THEN "generated" ELSE "idle"
    /\ taurus_root' = IF pilgrim_errors # <<>> THEN taurus_root ELSE Lowered(taurus_root)
    /\ UNCHANGED <<input_file, commands, walks, tokens, taurus, frames, pilgrim_errors, symbol_table, iMem, dMem, reg,
                   pm, hang, op>>

\* the emit procedures called one at a time, in any order, on a generator that has
\* not raised; loc stands for any location a caller may pass
EmitCall(g, name) ==
    /\ malcolm.raised = "none"
    /\ Len(prru_code) < MaxEmit /\ malcolm.highEmitLoc < MaxEmit
    /\ Emitted(g)
    /\ op' = name
    /\ UNCHANGED <<input_file, commands, walks, tokens, taurus, frames, taurus_root, pilgrim_errors, symbol_table,
                   iMem, dMem, reg, pm, hang, phase>>

\* emit_comment, emit_ro, emit_rm or emit_rm_abs puts one line
EmitLine ==
    \E g \in {emit_comment(Generator, ""), emit_ro(Generator, "HALT", 0, 0, 0, ""),
              emit_rm(Generator, "LD", ac, "0", gp, "")}
             \cup {emit_rm_abs([Generator EXCEPT !.break_loc = loc], "LDA", pc, "_break_loc", 0, "")
                      : loc \in 0..MaxEmit} :
        EmitCall(g, "emit")

EmitSkip ==
    \E how_many \in {0, 1} :
        EmitCall(emit_skip(Generator, how_many, "_break_loc"), "emit_skip")

EmitBackup ==
    \E loc \in 0..MaxEmit :
        EmitCall(emit_backup([Generator EXCEPT !.break_loc = loc], "_break_loc"), "emit_backup")

EmitRestore == EmitCall(emit_restore(Generator), "emit_restore")
(***************************************************************************)
(* Sigma (prru_machine.py), the PM.  An instruction is [iop, iarg1, iarg2, *)
(* iarg3] with iarg2 a value; iMem and dMem are functions on the locations *)
(* that hold something (Python dicts); reg[k + 1] is the code's reg[k].    *)
(***************************************************************************)
iaddr_size == 1024
daddr_size == 1024
no_regs == 8
pc_reg == 7

RR_instructions == {"HALT", "IN", "OUT", "OUTLN", "ADD", "SUB", "MUL", "DIV"}
RM_instructions == {"LD", "ST"}
RA_instructions == {"LDA", "LDC", "JLT", "JLE", "JGT", "JGE", "JEQ", "JNE"}

\* int(val), float(val) and bool(float(val)) of _put_value, after its 'True'/'False' step
_put_value(val, typex) ==
    LET v == IF val.t = "str" /\ val.s \in {"True", "False"} THEN BoolV(val.s = "True")
             ELSE val
        converted(number) ==
            IF number.t = "ValueError"
            THEN [number EXCEPT !.t = "Invalid conversion to", !.s = typex]
            ELSE IF typex = "boolean" THEN BoolV(number.n # 0)
            ELSE number
    IN  IF typex \notin {"int", "real", "boolean"} THEN NoneV
        ELSE IF v.t = "str" THEN converted(Number(v.s, typex # "int"))
        ELSE IF typex = "int" THEN IntV(Trunc(v.n, v.d))
        ELSE converted(RealV(v.n, v.d))

\* the typex of the first symbol stored at mem_loc, "" for None
_typex_in_tabledance(table, mem_loc) ==
    LET hits == {k \in 1..Len(table) : table[k].mem_location = mem_loc}
    IN  IF hits = {} THEN "" ELSE table[CHOOSE k \in hits : \A j \in hits : k <= j].typex

_update_tabledance(table, mem_loc, value) ==
    [k \in 1..Len(table) |->
        IF table[k].mem_location = mem_loc THEN [table[k] EXCEPT !.val = value] ELSE table[k]]

\* the Python operator of an arithmetic or jump instruction
Operator(iop) ==
    CASE iop = "ADD" -> "+" [] iop = "SUB" -> "-" [] iop = "MUL" -> "*" [] iop = "DIV" -> "/"
      [] iop = "JLT" -> "<" [] iop = "JLE" -> "<=" [] iop = "JGT" -> ">"
      [] iop = "JGE" -> ">=" [] iop = "JEQ" -> "==" [] iop = "JNE" -> "!="

\* how a call of step_pm ends: the machine it leaves, what it printed, its result
\* (srOKAY, srHALT or the exception), the pc it fetched at and its m
Return(machine, how, printed, pc_, m) ==
    [reg |-> machine.reg, dMem |-> machine.dMem, table |-> machine.table, result |-> how,
     out |-> printed, fetched |-> pc_, m |-> m]

\* step_pm from "curr_inst = self.iMem[pc]" on: machine has reg[7] incremented, and
\* sum is curr_inst.iarg2 + self.reg[s] where the code computes it
Execute(machine, curr_inst, sum, pc_, line) ==
    LET iop == curr_inst.iop
        r == curr_inst.iarg1 + 1
        s == IF iop \in RR_instructions THEN curr_inst.iarg2.n + 1 ELSE curr_inst.iarg3 + 1
        t == curr_inst.iarg3 + 1
        m == IF iop \in RR_instructions THEN 0 ELSE Trunc(sum.n, sum.d)
        end(mach, how, printed) == Return(mach, how, printed, pc_, m)
        set(value) ==
            IF value.t = "TypeError" THEN end(machine, "TypeError", <<>>)
            ELSE end([machine EXCEPT !.reg[r] = value], "srOKAY", <<>>)
        jump(test) ==
            IF test.t = "TypeError" THEN end(machine, "TypeError", <<>>)
            ELSE IF test.n = 1 THEN end([machine EXCEPT !.reg[pc_reg + 1] = IntV(m)],
                                        "srOKAY", <<>>)
            ELSE end(machine, "srOKAY", <<>>)
        store(value, table) ==
            end([machine EXCEPT !.table = table,
                                !.dMem = [a \in DOMAIN machine.dMem \cup {m} |->
                                             IF a = m THEN value ELSE machine.dMem[a]]],
                "srOKAY", <<>>)
        put(value) ==
            IF value.t = "Invalid conversion to"
            THEN end(machine, value.t \o " " \o value.s, <<>>)
            ELSE store(value, _update_tabledance(machine.table, m, machine.reg[r]))
    IN  IF iop \notin RR_instructions /\ sum.t \notin {"int", "real"}
        THEN Return(machine, "TypeError", <<>>, pc_, 0)
        ELSE IF iop \in RM_instructions /\ (m < 0 \/ m > daddr_size)
        THEN end(machine, "Memory index out of range", <<>>)
        ELSE CASE iop = "HALT" -> end(machine, "srHALT", <<>>)
               [] iop = "IN" -> set(StrV(line))
               [] iop \in {"OUT", "OUTLN"} ->
                    end(machine, "srOKAY", <<[val |-> machine.reg[r], nl |-> iop = "OUTLN"]>>)
               [] iop \in {"ADD", "SUB", "MUL", "DIV"} ->
                    IF iop = "DIV" /\ machine.reg[t].t # "str" /\ IsZero(machine.reg[t])
                    THEN end(machine, "Division by zero", <<>>)
                    ELSE set(Arith(Operator(iop), machine.reg[s], machine.reg[t]))
               [] iop = "LD" ->
                    IF m \in DOMAIN machine.dMem THEN set(machine.dMem[m])
                    ELSE end(machine, "KeyError", <<>>)
               [] iop = "ST" ->
                    IF _typex_in_tabledance(machine.table, m) = ""
                    THEN store(machine.reg[r], machine.table)
                    ELSE put(_put_value(machine.reg[r], _typex_in_tabledance(machine.table, m)))
               [] iop = "LDA" -> set(IntV(m))
               [] iop = "LDC" -> set(curr_inst.iarg2)
               [] iop \in {"JLT", "JLE", "JGT", "JGE", "JEQ", "JNE"} ->
                    jump(Arith(Operator(iop), machine.reg[r], IntV(0)))

\* a PC test that forgets the negative addresses
PcAboveRange(pc_) == Less(IntV(iaddr_size), pc_)

\* pc < 0 or pc > self.iaddr_size
PcOutOfRange(pc_) == Less(pc_, IntV(0)) \/ Less(IntV(iaddr_size), pc_)

\* one call of step_pm on machine = [reg, dMem, table] with the line input() returns.
\* fetched is None when the call ends before "self.iMem[pc]".  The register operands
\* of an instruction are in 0..no_regs-1, as in every instruction Malcolm emits.
step_pm(program, machine, line) ==
    LET pc_ == machine.reg[pc_reg + 1]
        next == [machine EXCEPT !.reg[pc_reg + 1] = Arith("+", pc_, IntV(1))]
        curr_inst == program[pc_.n]
    IN  IF pc_.t = "str" THEN Return(machine, "TypeError", <<>>, NoneV, 0)
        ELSE IF PcOutOfRange(pc_)
        THEN Return(machine, "Instruction memory index out of range", <<>>, NoneV, 0)
        ELSE IF pc_.d # 1 \/ pc_.n \notin DOMAIN program
        THEN Return([machine EXCEPT !.reg[pc_reg + 1] = Arith("+", pc_, IntV(1))],
                    "KeyError", <<>>, pc_, 0)
        ELSE Execute(next, curr_inst,
                     IF curr_inst.iop \in RR_instructions THEN IntV(0)
                     ELSE Arith("+", curr_inst.iarg2, next.reg[curr_inst.iarg3 + 1]),
                     pc_, line)

(***************************************************************************)
(* The PM stepping a loaded program.  pm records the last step_pm call:    *)
(* how it ended, the PC it fetched at, its m, and everything printed.      *)
(***************************************************************************)
NoStep == [result |-> "srOKAY", fetched |-> NoneV, m |-> 0, out |-> <<>>]

\* step_pm(), called while the last step returned srOKAY (the loop of the 'g' command);
\* line is what input() returns
Step ==
    /\ phase = "loaded"
    /\ pm.result = "srOKAY"
    /\ \E line \in {"7", "3.5", "abc"} :
         \E e \in {step_pm(iMem, [reg |-> reg, dMem |-> dMem, table |-> symbol_table], line)} :
             /\ reg' = e.reg
             /\ dMem' = e.dMem
             /\ symbol_table' = e.table
             /\ pm' = [result |-> e.result, fetched |-> e.fetched, m |-> e.m,
                       out |-> pm.out \o e.out]
             /\ raised' = IF e.result \in {"srOKAY", "srHALT"} THEN "none" ELSE e.result
             /\ phase' = CASE e.result = "srOKAY" -> phase
                            [] op = "evaluate" -> "idle"
                            [] op = "do_command" ->
                                 IF e.result = "srHALT" THEN "prompt" ELSE "idle"
                            [] OTHER -> phase
    /\ op' = IF op \in {"evaluate", "do_command"} THEN op ELSE "step_pm"
    /\ UNCHANGED <<input_file, commands, malcolm, walks, tokens, taurus, frames, taurus_root, pilgrim_errors, prru_code, iMem,
                   hang>>

\* what the 'h' command prints, and what a command that is none of h, g, c, q does
HelpText ==
    <<"\nCommands are: ",
      "   g(o        Execute TM instructions until HALT",
      "   c(lear     Reset simulator for new execution of program",
      "   h(elp      Cause this list of commands to be printed",
      "   q(uit      Terminate the simulation">>

Said(cmd) ==
    CASE cmd = "h" -> [k \in 1..Len(HelpText) |-> [val |-> StrV(HelpText[k]), nl |-> TRUE]]
      [] cmd \in {"g", "c", "q"} -> <<>>
      [] OTHER -> <<[val |-> StrV("Command " \o cmd \o " unkown"), nl |-> TRUE]>>

\* the lines input() may return to do_command; the empty line is asked again
Commands == {"h", "g", "clear", "q", "x"}

\* the most commands one evaluate() is given
MaxCommands == 4

\* a do_command whose 'c' leaves the PC where the last run stopped
DoCommandKeepingPC ==
    /\ phase = "prompt"
    /\ Len(commands) < MaxCommands
    /\ \E command \in Commands :
         \E cmd \in {SubSeq(command, 1, 1)} :
             /\ commands' = Append(commands, command)
             /\ reg' = IF cmd = "c"
                       THEN [k \in 1..no_regs |-> IF k = pc_reg + 1 THEN reg[k] ELSE IntV(0)]
                       ELSE reg
             /\ dMem' = IF cmd = "c" THEN [a \in {0} |-> IntV(daddr_size - 1)] ELSE dMem
             /\ pm' = IF cmd = "g" THEN [NoStep EXCEPT !.out = pm.out]
                       ELSE [pm EXCEPT !.out = @ \o Said(cmd)]
             /\ phase' = CASE cmd = "g" -> "loaded" [] cmd = "q" -> "idle" [] OTHER -> "prompt"
    /\ op' = "do_command"
    /\ UNCHANGED <<input_file, malcolm, walks, tokens, taurus, frames, taurus_root, pilgrim_errors,
                   symbol_table, prru_code, iMem, raised, hang>>

\* do_command() up to its loop of step_pm calls: a command is read and its first
\* character obeyed.  The loop of 'g' is Step, taken while step_pm returns srOKAY;
\* do_command then returns True, or the exception of step_pm ends evaluate()
DoCommand ==
    /\ phase = "prompt"
    /\ Len(commands) < MaxCommands
    /\ \E command \in Commands :
         \E cmd \in {SubSeq(command, 1, 1)} :
             /\ commands' = Append(commands, command)
             /\ reg' = IF cmd = "c" THEN [k \in 1..no_regs |-> IntV(0)] ELSE reg
             /\ dMem' = IF cmd = "c" THEN [a \in {0} |-> IntV(daddr_size - 1)] ELSE dMem
             /\ pm' = IF cmd = "g" THEN [NoStep EXCEPT !.out = pm.out]
                       ELSE [pm EXCEPT !.out = @ \o Said(cmd)]
             /\ phase' = CASE cmd = "g" -> "loaded" [] cmd = "q" -> "idle" [] OTHER -> "prompt"
    /\ op' = "do_command"
    /\ UNCHANGED <<input_file, malcolm, walks, tokens, taurus, frames, taurus_root, pilgrim_errors,
                   symbol_table, prru_code, iMem, raised, hang>>

\* _clear_symtab_values: every symbol back at the default of its type
_clear_symtab_values(table) ==
    [k \in 1..Len(table) |->
        [table[k] EXCEPT !.val = CASE table[k].typex = "int" -> IntV(0)
                                   [] table[k].typex = "real" -> RealV(0, 1)
                                   [] table[k].typex = "boolean" -> BoolV(FALSE)
                                   [] OTHER -> @]]

\* the position of the first c of s from i on, 0 when it has none
RECURSIVE Find(_, _, _)
Find(s, c, i) ==
    IF i > Len(s) THEN 0 ELSE IF SubSeq(s, i, i) = c THEN i ELSE Find(s, c, i + 1)

\* s.split(c)[0], and what follows the first c of s ("" when s has no c, where
\* the code's s.split(c)[1] raises IndexError)
Left(s, c) == IF Find(s, c, 1) = 0 THEN s ELSE SubSeq(s, 1, Find(s, c, 1) - 1)

Right(s, c) == IF Find(s, c, 1) = 0 THEN "" ELSE SubSeq(s, Find(s, c, 1) + 1, Len(s))

\* _str_to_lit: True, False, an int, or else a float
_str_to_lit(string) ==
    IF string \in {"True", "False"} THEN BoolV(string = "True")
    ELSE IF Number(string, FALSE).t = "ValueError" THEN Number(string, TRUE)
    ELSE Number(string, FALSE)

\* an operand reading that takes the second and third operand in each other's place
ReadRegsCrossed(opcode, regs) ==
    IF opcode \in RR_instructions
    THEN [iop |-> opcode, iarg1 |-> Number(Left(regs, ","), FALSE),
          iarg2 |-> Number(Right(Right(regs, ","), ","), FALSE),
          iarg3 |-> Number(Left(Right(regs, ","), ","), FALSE)]
    ELSE [iop |-> opcode, iarg1 |-> Number(Left(regs, ","), FALSE),
          iarg2 |-> _str_to_lit(Left(Right(regs, "("), ")")),
          iarg3 |-> Number(Left(Right(regs, ","), "("), FALSE)]

\* the Instruction _read_prru_code builds from the operands text of a line: "r,s,t"
\* for an RR instruction, "r,d(s)" for the others.  An operand int() or float()
\* rejects is kept as the ValueError
ReadRegs(opcode, regs) ==
    IF opcode \in RR_instructions
    THEN [iop |-> opcode, iarg1 |-> Number(Left(regs, ","), FALSE),
          iarg2 |-> Number(Left(Right(regs, ","), ","), FALSE),
          iarg3 |-> Number(Right(Right(regs, ","), ","), FALSE)]
    ELSE [iop |-> opcode, iarg1 |-> Number(Left(regs, ","), FALSE),
          iarg2 |-> _str_to_lit(Left(Right(regs, ","), "(")),
          iarg3 |-> Number(Left(Right(regs, "("), ")"), FALSE)]

\* the text of a line of the listing as emit_comment, emit_ro and emit_rm format it,
\* with the comment after a tab when TraceCode is set
LineText(line, TraceCode) ==
    IF line.op = "*" THEN "* " \o line.c
    ELSE ToString(line.loc) \o ":  " \o line.op \o "  " \o line.regs
         \o (IF TraceCode THEN "\t" \o line.c ELSE "")

\* s.split('  ')[0], and what follows the first '  ' of s
BeforeGap(s) == IF Pairs(s, 1, "  ") = {} THEN s ELSE SubSeq(s, 1, Least(Pairs(s, 1, "  ")) - 1)

AfterGap(s) ==
    IF Pairs(s, 1, "  ") = {} THEN "" ELSE SubSeq(s, Least(Pairs(s, 1, "  ")) + 2, Len(s))

\* the location, opcode and operands text _read_prru_code takes from the text of a
\* line: temp = line.split('  '), int(temp[0].split(':')[0]), temp[1],
\* temp[2].split('\t')[0]
ReadText(text) ==
    [loc |-> Number(Left(BeforeGap(text), ":"), FALSE).n,
     op |-> BeforeGap(AfterGap(text)),
     regs |-> Left(BeforeGap(AfterGap(AfterGap(text))), "\t")]

\* what the body of _read_prru_code's loop raises on a line that is no comment
ReadLine(line) ==
    IF Number(ToString(line.loc), FALSE).n > iaddr_size THEN "Location too large"
    ELSE IF line.op \notin RR_instructions \cup RM_instructions \cup RA_instructions
    THEN "Illegal opcode"
    ELSE IF "ValueError" \in {ReadRegs(line.op, line.regs).iarg1.t,
                              ReadRegs(line.op, line.regs).iarg2.t,
                              ReadRegs(line.op, line.regs).iarg3.t}
    THEN "ValueError"
    ELSE "none"

\* _read_prru_code: the lines of the listing in order up to the first that raises,
\* self.iMem[loc] = Instruction(opcode, iarg1, iarg2, iarg3) for each, so that the
\* last line read for a location is the one iMem holds
_read_prru_code(code) ==
    LET bad == {k \in 1..Len(code) : code[k].op # "*" /\ ReadLine(code[k]) # "none"}
        read == {k \in 1..Len(code) : code[k].op # "*" /\ \A b \in bad : k < b}
        last(loc) == CHOOSE k \in read :
                        code[k].loc = loc /\ \A j \in read : code[j].loc = loc => j <= k
        inst(line) == [iop |-> line.op,
                       iarg1 |-> ReadRegs(line.op, line.regs).iarg1.n,
                       iarg2 |-> ReadRegs(line.op, line.regs).iarg2,
                       iarg3 |-> ReadRegs(line.op, line.regs).iarg3.n]
    IN  [iMem |-> [loc \in {code[k].loc : k \in read} |-> inst(code[last(loc)])],
         raised |-> IF bad = {} THEN "none"
                    ELSE ReadLine(code[CHOOSE b \in bad : \A c \in bad : b <= c])]

\* str(val), as print writes it.  A float is written with the digits after its
\* point when they are at most three (7/2 is 3.5, 3 is 3.0); the model runs no
\* program that prints any other float, which is written here as n/d
Printed(val) ==
    LET a == Abs(val.n)
        th == ((a % val.d) * 1000) \div val.d
        pad(x, width) == Repeat("0", width - Len(ToString(x))) \o ToString(x)
    IN  CASE val.t = "int" -> ToString(val.n)
          [] val.t = "bool" -> IF val.n = 1 THEN "True" ELSE "False"
          [] val.t = "str" -> val.s
          [] val.t = "None" -> "None"
          [] val.t = "real" /\ val.d = 0 ->
               IF val.n = 0 THEN "nan" ELSE IF val.n > 0 THEN "inf" ELSE "-inf"
          [] val.t = "real" /\ val.d # 0 /\ 1000 % val.d # 0 ->
               ToString(val.n) \o "/" \o ToString(val.d)
          [] val.t = "real" /\ val.d # 0 /\ 1000 % val.d = 0 ->
               (IF val.n < 0 THEN "-" ELSE "") \o ToString(a \div val.d) \o "." \o
               (IF th % 100 = 0 THEN ToString(th \div 100)
                ELSE IF th % 10 = 0 THEN pad(th \div 10, 2)
                ELSE pad(th, 3))

\* everything print has written: each value, and the newline of an OUTLN
RECURSIVE Text(_)
Text(out) ==
    IF out = <<>> THEN ""
    ELSE Printed(Head(out).val) \o (IF Head(out).nl THEN "\n" ELSE "") \o Text(Tail(out))

\* evaluate() once degen() has returned: the symbol values are cleared, the listing
\* is read into iMem, and the 'g' command is given
EvaluateAfterDegen ==
    /\ phase = "generated"
    /\ \E sigma \in {_read_prru_code(prru_code)} :
         /\ iMem' = sigma.iMem
         /\ raised' = sigma.raised
         /\ phase' = IF sigma.raised = "none" THEN "loaded" ELSE "idle"
    /\ symbol_table' = _clear_symtab_values(symbol_table)
    /\ reg' = [k \in 1..no_regs |-> IntV(0)]
    /\ dMem' = [a \in {0} |-> IntV(daddr_size - 1)]
    /\ pm' = NoStep
    /\ UNCHANGED <<input_file, commands, malcolm, walks, tokens, taurus, frames, taurus_root, pilgrim_errors, prru_code,
                   hang, op>>

(***************************************************************************)
(* Initial states.                                                         *)
(***************************************************************************)
\* the objects as their constructors leave them
Constructed ==
    /\ taurus = NewTaurus
    /\ frames = <<>>
    /\ taurus_root = NoneAtom
    /\ pilgrim_errors = <<>>
    /\ symbol_table = <<>>
    /\ prru_code = <<>>
    /\ iMem = <<>>
    /\ dMem = <<>>
    /\ reg = [k \in 1..no_regs |-> IntV(0)]
    /\ pm = NoStep
    /\ raised = "none"
    /\ hang = FALSE
    /\ op = "init"
    /\ phase = "idle"
    /\ walks = <<>>
    /\ malcolm = NewMalcolm
    /\ commands = <<>>

\* the factorial program, its second declaration after a statement
FactorialSource ==
    <<"main", "{", "int", "n", ";", "n", ":=", "5", ";", "int", "f", ";", "f", ":=", "1", ";",
      "while", "(", "n", ">", "0", ")", "{", "f", ":=", "f", "*", "n", ";", "--", "n", ";",
      "}", "coutln", "f", ";", "}">>

\* a repeat loop left by a rompe
RompeSource ==
    <<"main", "{", "int", "i", ";", "i", ":=", "0", ";", "repeat", "{", "++", "i", ";",
      "if", "(", "i", "==", "3", ")", "then", "{", "rompe", ";", "}", "}",
      "until", "(", "i", "==", "10", ")", ";", "coutln", "i", ";", "}">>

\* a division by a constant zero
ZeroDivisionSource ==
    <<"main", "{", "int", "x", ";", "x", ":=", "5", "/", "0", ";", "}">>

\* the factorial program with both variables declared first
FactorialDeclaredFirst ==
    <<"main", "{", "int", "n", ",", "f", ";", "n", ":=", "5", ";", "f", ":=", "1", ";",
      "while", "(", "n", ">", "0", ")", "{", "f", ":=", "f", "*", "n", ";", "--", "n", ";",
      "}", "coutln", "f", ";", "}">>

\* a quotient of two integer constants assigned to a real
RealDivisionSource ==
    <<"main", "{", "real", "x", ";", "x", ":=", "7", "/", "2", ";", "coutln", "x", ";", "}">>

\* a rompe followed by another loop in the same loop body
NestedRompeSource ==
    <<"main", "{", "int", "i", ";", "i", ":=", "0", ";", "while", "(", "i", "<", "3", ")", "{",
      "++", "i", ";", "if", "(", "i", "==", "1", ")", "then", "{", "rompe", ";", "}",
      "while", "(", "i", "<", "0", ")", "{", "++", "i", ";", "}", "}",
      "coutln", "i", ";", "}">>

\* a variable declared again in its own declaration and in a later one
RedeclaredSource ==
    <<"main", "{", "int", "x", ",", "x", ",", "y", ";", "real", "x", ";", "cin", "y", ";", "}">>

\* an undeclared identifier assigned to an undeclared variable
UndeclaredPairSource ==
    <<"main", "{", "int", "x", ";", "y", ":=", "b", ";", "}">>

\* a division by an expression that folds to zero, assigned to a real
FoldedZeroSource ==
    <<"main", "{", "real", "x", ";", "x", ":=", "5", "/", "(", "1", "-", "1", ")", ";", "}">>

\* chains of operators of one and of different levels, signs and parentheses
ExpressionsSource ==
    <<"main", "{", "int", "x", ",", "y", ";", "x", ":=", "x", "-", "y", "-", "1", ";",
      "y", ":=", "x", "+", "y", "*", "2", ";", "cout", "-", "(", "x", "+", "1", ")", "*", "y", ";",
      "if", "(", "x", "<", "y", "/", "2", "/", "(", "x", ")", ")", "then", "{",
      "x", ":=", "(", "x", ")", ";", "}", "}">>

\* the four increment and decrement statements on one variable
IncDecSource ==
    <<"main", "{", "int", "x", ";", "x", "++", ";", "++", "x", ";", "x", "--", ";", "--", "x", ";",
      "coutln", "x", ";", "}">>

\* a rompe in the block of an if that no loop encloses
StrayRompeInIf ==
    <<"main", "{", "int", "i", ";", "if", "(", "i", "==", "3", ")", "then", "{", "rompe", ";", "}", "}">>

\* an if whose else part runs, then one whose then part runs
IfElseSource ==
    <<"main", "{", "int", "x", ";", "x", ":=", "2", ";",
      "if", "(", "x", "<", "1", ")", "then", "{", "cout", "x", ";", "}",
      "else", "{", "x", ":=", "0", ";", "}",
      "if", "(", "x", "==", "0", ")", "then", "{", "x", ":=", "5", ";", "}",
      "else", "{", "cout", "x", ";", "}", "coutln", "x", ";", "}">>

\* a loop with two rompe statements
TwoRompeSource ==
    <<"main", "{", "int", "i", ";", "while", "(", "i", "<", "3", ")", "{",
      "rompe", ";", "rompe", ";", "}", "}">>

\* sources the whole chain is run on: well-formed programs, programs with one
\* semantic fault each, and programs the parser or the lexer objects to
Sources == {
    FactorialSource,
    RompeSource,
    <<"main", "{", "real", "x", ",", "y", ";", "x", ":=", "7", "/", "2", ";", "cin", "y", ";",
      "if", "(", "x", "<", "y", ")", "then", "{", "cout", "-", "x", ";", "}",
      "else", "{", "y", "--", ";", "}", "}">>,
    <<"main", "{", "boolean", "b", ";", "b", ":=", "1.5", "<", "2", ";",
      "if", "(", "b", ")", "then", "{", "coutln", "True", ";", "}", "}">>,
    <<"main", "{", "int", "x", ",", "y", ";", "cout", "y", ";", "}">>,
    ZeroDivisionSource,
    FoldedZeroSource,
    ExpressionsSource,
    IncDecSource,
    IfElseSource,
    TwoRompeSource,
    <<"main", "{", "int", "x", ";", "x", ":=", "1.5", ";", "}">>,
    <<"main", "{", "int", "x", ";", "x", ":=", "True", ";", "}">>,
    <<"main", "{", "int", "x", ";", "y", ":=", "x", "+", "1", ";", "}">>,
    RedeclaredSource,
    UndeclaredPairSource,
    <<"main", "{", "int", "cinx", ";", "cout", "cinx", ";", "}">>,
    <<"main", "{", "int", "x", "x", ":=", "1", ";", "}">>,
    <<"main", "{", "int", "x", ";", "x", ":=", ";", "}">>,
    <<"main", "{", "int", "x", ";", "rompe", ";", "}">>,
    StrayRompeInIf,
    <<"main", "{", "int", "i", ";", "while", "(", "i", "<", "3", ")", "{", "++", "i", ";", "}",
      "rompe", ";", "}">>,
    <<"main", "{", "int", "i", ";", "{", "rompe", ";", "}", "}">>,
    <<"main", "{", "int", "x", ";", "x", ":=", "1", ";">>,
    <<"main", "{", "int", "x", ";", "x", ":=", "$", ";", "}">>,
    <<"main", "{", "}", "x">>,
    FactorialDeclaredFirst,
    RealDivisionSource,
    NestedRompeSource }

Init == tokens \in {Scan(lexemes) : lexemes \in Sources} /\ Constructed /\ input_file = <<>>

Next ==
    \/ Call("parse") \/ Call("walk") \/ Call("degen") \/ Call("evaluate")
    \/ ParseStatement \/ ParseOpen \/ ParseClose \/ ParseEnd \/ ParseAbort
    \/ WalkAfterParse
    \/ DegenAfterWalk
    \/ EvaluateAfterDegen
    \/ Step

Spec == Init /\ [][Next]_vars

\* the longest stream of which every instance is parsed
MaxLen == 3

\* streams for the parser alone: every stream of up to MaxLen tokens over a few
\* lexemes, and every source one token away from a well-formed one (a token
\* replaced, inserted or deleted, or the rest of the source cut off)
Streams ==
    LET short == {"main", "{", "}", "int", "x", ";", ":=", ")", "$"}
        other == {"{", "}", "x", "1", ";", ",", "(", ")", ":=", "++", "+", "int",
                  "else", "until", "rompe", "$"}
        bases == {b \in Sources : \A k \in 1..Len(b) : CategoryOf(b[k]) # "error"}
        edits(b) ==
            {[b EXCEPT ![k] = t] : k \in 1..Len(b), t \in other}
            \cup {SubSeq(b, 1, k) \o <<t>> \o SubSeq(b, k + 1, Len(b)) :
                     k \in 0..Len(b), t \in other}
            \cup {SubSeq(b, 1, k - 1) \o SubSeq(b, k + 1, Len(b)) : k \in 1..Len(b)}
            \cup {SubSeq(b, 1, k) : k \in 0..Len(b)}
    IN  UNION {[1..n -> short] : n \in 0..MaxLen} \cup UNION {edits(b) : b \in bases}

InitParse == tokens \in {Scan(lexemes) : lexemes \in Streams} /\ Constructed /\ input_file = <<>>

NextParse == Call("parse") \/ ParseStatement \/ ParseOpen \/ ParseClose \/ ParseEnd \/ ParseAbort

SpecParse == InitParse /\ [][NextParse]_vars

Inst(iop, iarg1, iarg2, iarg3) ==
    [iop |-> iop, iarg1 |-> iarg1, iarg2 |-> iarg2, iarg3 |-> iarg3]

\* the number of instructions before the closing HALT of a loaded program
ProgLen == 3

\* loaded programs: every ProgLen instructions out of a pool, then HALT
Programs ==
    LET pool == {
            Inst("LDC", 0, RealV(7, 2), 0),
            Inst("LDC", 1, IntV(2), 0),
            Inst("IN", 0, IntV(0), 0),
            Inst("ST", 0, IntV(0), gp),
            Inst("ST", 0, IntV(1), gp),
            Inst("ST", 0, IntV(2), 1),
            Inst("ST", 0, IntV(daddr_size), gp),
            Inst("ST", 0, IntV(daddr_size + 1), gp),
            Inst("LD", 0, IntV(daddr_size - 2), 1),
            Inst("LDA", pc, IntV(iaddr_size), pc),
            Inst("LDC", pc, IntV(-1), 0),
            Inst("LDC", pc, IntV(iaddr_size), 0),
            Inst("DIV", 0, IntV(0), 1),
            Inst("JEQ", 1, IntV(1), pc),
            Inst("OUT", 0, IntV(0), 0) }
    IN  {[loc \in 0..ProgLen |-> IF loc < ProgLen THEN body[loc + 1]
                                 ELSE Inst("HALT", 0, IntV(0), 0)] :
            body \in [1..ProgLen -> pool]}

\* symbol tables the PM runs with, values as _clear_symtab_values leaves them
Tables ==
    LET info(id, typex, mem_location) ==
            IdInfo(Atom([lex |-> id, cat |-> "ID", loc |-> Loc(mem_location + 4)], ""),
                   typex, mem_location)
    IN  { <<info("x", "int", 0), info("y", "real", 1)>>,
          <<info("b", "boolean", 0), info("n", "int", 1)>> }

\* the PM as evaluate() leaves it when _read_prru_code has loaded a program
InitPM ==
    /\ tokens = <<>>
    /\ taurus = NewTaurus
    /\ frames = <<>>
    /\ taurus_root = NoneAtom
    /\ pilgrim_errors = <<>>
    /\ prru_code = <<>>
    /\ symbol_table \in Tables
    /\ iMem \in Programs
    /\ dMem = [a \in {0} |-> IntV(daddr_size - 1)]
    /\ reg = [k \in 1..no_regs |-> IntV(0)]
    /\ pm = NoStep
    /\ raised = "none"
    /\ hang = FALSE
    /\ op = "init"
    /\ phase = "loaded"
    /\ walks = <<>>
    /\ malcolm = NewMalcolm
    /\ commands = <<>>
    /\ input_file = <<>>

NextPM == Step

SpecPM == InitPM /\ [][NextPM]_vars


\* the values a DIV is run on: ints of both signs, reals, booleans and the zeros
DivOperands ==
    {IntV(-7), IntV(7), IntV(2), IntV(-2), IntV(0), IntV(1), RealV(7, 2), RealV(0, 1),
     BoolV(TRUE), BoolV(FALSE)}

\* the PM loaded with one DIV on the registers 0 and 1, and a HALT
InitDiv ==
    /\ tokens = <<>>
    /\ taurus = NewTaurus
    /\ frames = <<>>
    /\ taurus_root = NoneAtom
    /\ pilgrim_errors = <<>>
    /\ prru_code = <<>>
    /\ symbol_table \in Tables
    /\ iMem \in {[loc \in 0..1 |-> IF loc = 0 THEN Inst("DIV", r, IntV(s), t)
                                   ELSE Inst("HALT", 0, IntV(0), 0)] : r, s, t \in {ac, ac1}}
    /\ dMem = [a \in {0} |-> IntV(daddr_size - 1)]
    /\ reg \in {[k \in 1..no_regs |-> IF k = ac + 1 THEN a ELSE IF k = ac1 + 1 THEN b ELSE IntV(0)] :
                  a, b \in DivOperands}
    /\ pm = NoStep
    /\ raised = "none"
    /\ hang = FALSE
    /\ op = "init"
    /\ phase = "loaded"
    /\ walks = <<>>
    /\ malcolm = NewMalcolm
    /\ commands = <<>>
    /\ input_file = <<>>

NextDiv == Step

SpecDiv == InitDiv /\ [][NextDiv]_vars


\* programs the command loop is run on: one that stores, loads and writes, one that
\* counts down from 2 writing each value, one that divides by zero
ReplPrograms ==
    { [loc \in 0..4 |-> <<Inst("LDC", ac, IntV(7), 0), Inst("ST", ac, IntV(1), gp),
                           Inst("LD", ac1, IntV(1), gp), Inst("OUT", ac1, IntV(0), 0),
                           Inst("HALT", 0, IntV(0), 0)>>[loc + 1]],
      [loc \in 0..5 |-> <<Inst("LDC", ac, IntV(2), 0), Inst("LDC", ac1, IntV(1), 0),
                           Inst("OUTLN", ac, IntV(0), 0), Inst("SUB", ac, IntV(ac), ac1),
                           Inst("JGT", ac, IntV(-3), pc), Inst("HALT", 0, IntV(0), 0)>>[loc + 1]],
      [loc \in 0..3 |-> <<Inst("LDC", ac, IntV(7), 0), Inst("ST", ac, IntV(0), gp),
                           Inst("DIV", ac, IntV(ac), ac1), Inst("HALT", 0, IntV(0), 0)>>[loc + 1]] }

\* evaluate() at its first call of do_command: the program loaded, nothing run
InitRepl ==
    /\ tokens = <<>>
    /\ taurus = NewTaurus
    /\ frames = <<>>
    /\ taurus_root = NoneAtom
    /\ pilgrim_errors = <<>>
    /\ prru_code = <<>>
    /\ symbol_table \in Tables
    /\ iMem \in ReplPrograms
    /\ dMem = [a \in {0} |-> IntV(daddr_size - 1)]
    /\ reg = [k \in 1..no_regs |-> IntV(0)]
    /\ pm = NoStep
    /\ raised = "none"
    /\ hang = FALSE
    /\ op = "evaluate"
    /\ phase = "prompt"
    /\ walks = <<>>
    /\ malcolm = NewMalcolm
    /\ commands = <<>>
    /\ input_file = <<>>

NextRepl == DoCommand \/ Step

SpecRepl == InitRepl /\ [][NextRepl]_vars


\* the most pieces of a line of the files scanned
MaxPieces == 4

\* the lines made of up to MaxPieces pieces: comment ends and starts, a token, a blank
PieceLines ==
    LET pieces == {"*/", "/*", "y", " "}
        RECURSIVE join(_)
        join(seq) == IF seq = <<>> THEN "" ELSE Head(seq) \o join(Tail(seq))
    IN  {join(seq) : seq \in UNION {[1..n -> pieces] : n \in 0..MaxPieces}}

\* files of three lines: the first may open a block comment, the second is made of
\* pieces, the third ends a comment that is still open
Files ==
    {<<first, second, "z */ w">> :
        first \in {"/*", "x /*", "x", "/* x */ /* x", "\t/* x", "x:=1.5;//*"},
        second \in PieceLines}

\* the lines made of up to MaxPieces pieces: tabs, names of one and two letters, a blank
TabLines ==
    LET pieces == {"\t", "x", "ab", " "}
        RECURSIVE join(_)
        join(seq) == IF seq = <<>> THEN "" ELSE Head(seq) \o join(Tail(seq))
    IN  {join(seq) : seq \in UNION {[1..n -> pieces] : n \in 0..MaxPieces}}

\* files of two lines, the second with tabs
TabFiles == {<<"x", second>> : second \in TabLines}

\* a Flix constructed on a file
InitScan == tokens = <<>> /\ Constructed /\ input_file \in Files \cup TabFiles

\* scan() run to its end
ScanFile ==
    /\ op # "scan"
    /\ tokens' = scan(input_file)
    /\ op' = "scan"
    /\ UNCHANGED <<input_file, commands, malcolm, walks, taurus, frames, taurus_root,
                   pilgrim_errors, symbol_table, prru_code, iMem, dMem, reg, pm, raised, hang,
                   phase>>

NextScan == ScanFile

SpecScan == InitScan /\ [][NextScan]_vars

\* the emit procedures on their own
InitEmit == tokens = <<>> /\ Constructed /\ input_file = <<>>

NextEmit ==
    EmitLine \/ EmitSkip \/ EmitBackup \/ EmitRestore

SpecEmit == InitEmit /\ [][NextEmit]_vars

\* _sync on its own: the parser at the first token of a short stream, then any
\* of the calls the parser makes, one after another
SyncLexemes == {"main", "x", ";", ":=", "1"}

SyncStreams == UNION {[1..n -> SyncLexemes] : n \in 0..MaxLen}

\* what the parser expects: lexemes, labels, and the tuple self._ID
Expecteds ==
    {Str("main"), Str(";"), Str("Independent ID"), Str("Statement starter"), Tup(ID_)}

Syncsets == {{}, {";"}}

CategoryFlags == {ID_, ID_NUM}

InitSync == tokens \in {Scan(lexemes) : lexemes \in SyncStreams} /\ Constructed /\ input_file = <<>>

SyncCall ==
    /\ ~Dead(taurus)
    /\ \E expected_lexeme \in Expecteds, syncset \in Syncsets, category_flag \in CategoryFlags :
          taurus' = Sync(taurus, expected_lexeme, syncset, category_flag)
    /\ op' = "_sync"
    /\ UNCHANGED <<input_file, commands, malcolm, walks, tokens, frames, taurus_root,
                   pilgrim_errors, symbol_table, prru_code, iMem, dMem, reg, pm, raised, hang,
                   phase>>

NextSync == SyncCall

SpecSync == InitSync /\ [][NextSync]_vars

\* the whole chain on programs that write one constant expression
Operators == FirstRel \cup FirstAdd \cup FirstMul

Operands == {<<"7", "2", "3">>, <<"2", "7", "2">>, <<"0", "2", "2">>}

\* a op b, with a sign before either operand, and the two ways of putting
\* parentheses in a op b op c
ConstantExpressions ==
    {<<a, o, b>> : a \in {"0", "2", "7"}, o \in Operators, b \in {"0", "2", "7"}}
    \cup {<<s, a, o, "7">> : s \in FirstAdd, a \in {"0", "2"}, o \in Operators}
    \cup {<<a, o, s, "7">> : s \in FirstAdd, a \in {"0", "2"}, o \in Operators}
    \cup {<<"(", t[1], o, t[2], ")", p, t[3]>> : t \in Operands, o \in Operators, p \in Operators}
    \cup {<<t[1], o, "(", t[2], p, t[3], ")">> : t \in Operands, o \in Operators, p \in Operators}

FoldSources == {<<"main", "{", "cout">> \o e \o <<";", "}">> : e \in ConstantExpressions}

InitFold == tokens \in {Scan(lexemes) : lexemes \in FoldSources} /\ Constructed /\ input_file = <<>>

NextFold ==
    \/ Call("evaluate")
    \/ ParseStatement \/ ParseEnd
    \/ WalkAfterParse
    \/ DegenAfterWalk
    \/ EvaluateAfterDegen
    \/ Step

SpecFold == InitFold /\ [][NextFold]_vars

\* the whole chain on programs that divide by the variable y: what stands before
\* the division, and after it
BeforeDivision ==
    {<<>>, <<"cin", "y", ";">>, <<"y", ":=", "2", ";">>, <<"y", ":=", "0", ";">>,
     <<"y", ":=", "2", ";", "cin", "y", ";">>, <<"y", ":=", "2", ";", "y", ":=", "0", ";">>}

AfterDivision == {<<>>, <<"y", ":=", "2", ";">>, <<"cin", "y", ";">>}

DivisorSources ==
    {<<"main", "{", "int", "x", ",", "y", ";">> \o before
        \o <<"x", ":=", "7", "/", "y", ";">> \o after \o <<"cout", "x", ";", "}">>
     : before \in BeforeDivision, after \in AfterDivision}

InitDivisor ==
    tokens \in {Scan(lexemes) : lexemes \in DivisorSources} /\ Constructed /\ input_file = <<>>

SpecDivisor == InitDivisor /\ [][NextFold]_vars
(***************************************************************************)
(* Properties.                                                             *)
(***************************************************************************)
\* C1: when walk() has returned to degen() with a non-empty semantic error list, the
\* step that follows raises SEMANTIC_ERRORS_REMAIN and leaves the listing empty
C1_DegenRefuses ==
    [][(phase = "walked" /\ pilgrim_errors # <<>>)
          => (raised' = "SEMANTIC_ERRORS_REMAIN" /\ prru_code' = <<>>)]_vars

\* C1: degen() has refused a program the analyzer found a semantic error in
C1_Refused ==
    /\ op = "degen" /\ phase = "idle"
    /\ pilgrim_errors # <<>>
    /\ raised = "SEMANTIC_ERRORS_REMAIN"

\* C2: when parse() has returned to walk() with a non-empty syntax error list, the
\* step that follows raises SYNTAX_ERRORS_REMAIN with the symbol table and the
\* semantic error list empty
C2_WalkRefuses ==
    [][(phase = "parsed" /\ taurus.errs # <<>>)
          => (raised' = "SYNTAX_ERRORS_REMAIN" /\ symbol_table' = <<>>
              /\ pilgrim_errors' = <<>>)]_vars

\* C2: walk() has refused a source with declarations that the parser reported on
C2_Refused ==
    /\ op = "walk" /\ phase = "idle"
    /\ taurus.errs # <<>>
    /\ taurus_root.kids[1].kids # <<>>
    /\ raised = "SYNTAX_ERRORS_REMAIN"

\* C3: once parse() is over on a stream without an ERROR token, it has returned
\* normally and root's children are the <dl> and the <sl>, in this order
C3_TreeOnAnyStream ==
    (op = "parse" /\ phase = "idle" /\ \A k \in 1..Len(tokens) : tokens[k].cat # "error")
        => /\ raised = "none" /\ ~hang
           /\ Len(taurus_root.kids) = 2
           /\ taurus_root.kids[1].lex = "<dl>"
           /\ taurus_root.kids[2].lex = "<sl>"

\* C3: parse() has returned a tree on a stream it reported several errors on
C3_Recovered ==
    /\ op = "parse" /\ phase = "idle" /\ raised = "none"
    /\ Len(taurus.errs) >= 3
    /\ Len(taurus_root.kids) = 2
    /\ taurus_root.kids[2].kids # <<>>

\* C4: no loop of the parser comes back to its head at the token it began its last
\* pass at, and every step of parse() reads a token, closes a statement list or
\* ends the call
C4_ParseProgress ==
    [][phase = "parsing"
          => /\ ~taurus'.spin /\ ~hang'
             /\ \/ phase' # "parsing"
                \/ taurus'.pos > taurus.pos
                \/ Len(frames') < Len(frames)]_vars

\* C4: parse() is over on a malformed stream that it read to its end
C4_Terminated ==
    /\ op = "parse" /\ phase = "idle" /\ ~hang
    /\ Len(tokens) >= 3
    /\ taurus.errs # <<>>
    /\ taurus.pos > Len(tokens)

\* C5, as stated: the syntax errors are at most as many as the tokens
C5_ErrorsWithinTokens ==
    (op = "parse" /\ phase = "idle") => Len(taurus.errs) <= Len(tokens)

\* C5: the syntax errors are at most one more than the tokens
C5_ErrorsWithinTokensPlusOne ==
    Len(taurus.errs) <= Len(tokens) + 1

\* C5: parse() has returned with one error more than the stream has tokens
C5_OneMore ==
    /\ op = "parse" /\ phase = "idle"
    /\ tokens # <<>>
    /\ Len(taurus.errs) = Len(tokens) + 1

\* C6: no two 'Error at line:col' messages of the error list have the same location
C6_OneErrorPerLocation ==
    \A i, j \in 1..Len(taurus.errs) :
        (i < j /\ taurus.errs[i].kind = "at" /\ taurus.errs[j].kind = "at")
            => taurus.errs[i].loc # taurus.errs[j].loc

\* C6: parse() has returned with 'Error at' messages that are not next to each other
C6_SeveralErrors ==
    /\ op = "parse" /\ phase = "idle"
    /\ \E i, j \in 1..Len(taurus.errs) :
          j >= i + 2 /\ taurus.errs[i].kind = "at" /\ taurus.errs[j].kind = "at"

\* C7, as stated: once parse() is over on a stream with an ERROR token anywhere in
\* it, it has raised the lexical error
C7_LexicalErrorAnywhere ==
    (op = "parse" /\ phase = "idle" /\ \E k \in 1..Len(tokens) : tokens[k].cat = "error")
        => raised = "LEXICAL_ERROR"

\* C8, as stated: a step that fetched an LD or an ST had 0 <= m < daddr_size or
\* failed with the data memory error
C8_AddressBelowSize ==
    (op = "step_pm" /\ pm.fetched.t = "int" /\ pm.fetched.n \in DOMAIN iMem
     /\ iMem[pm.fetched.n].iop \in RM_instructions)
        => \/ 0 <= pm.m /\ pm.m < daddr_size
           \/ pm.result = "Memory index out of range"

\* C9: a step that begins with reg[7] outside [0, iaddr_size] fails with the
\* instruction memory error, fetches nothing and leaves the registers and the data
\* memory as they were; any other step fetches at the reg[7] it began with
C9_FetchInRange ==
    [][IF reg[pc_reg + 1].n < 0 \/ reg[pc_reg + 1].n > iaddr_size * reg[pc_reg + 1].d
       THEN /\ pm'.result = "Instruction memory index out of range"
            /\ pm'.fetched = NoneV
            /\ reg' = reg /\ dMem' = dMem
       ELSE pm'.fetched = reg[pc_reg + 1]]_vars

\* C9: a step has failed on a reg[7] beyond iaddr_size that an earlier step put there
C9_OutOfRange ==
    /\ op = "step_pm"
    /\ pm.result = "Instruction memory index out of range"
    /\ reg[pc_reg + 1].n > iaddr_size

\* C10, as stated: after an ST to a symbol's location, dMem[m] and the symbol's val
\* are equal
C10_StoreAgrees ==
    (op = "step_pm" /\ pm.result = "srOKAY" /\ pm.fetched.t = "int"
     /\ pm.fetched.n \in DOMAIN iMem /\ iMem[pm.fetched.n].iop = "ST")
        => \A k \in 1..Len(symbol_table) :
              symbol_table[k].mem_location = pm.m
                  => Arith("==", dMem[pm.m], symbol_table[k].val).n = 1

\* the location a jump line of the listing transfers control to
JumpsTo(line) == line.loc + 1 + ReadRegs(line.op, line.regs).iarg2.n

\* line e of the listing closes a loop whose instructions include the one of line b
Encloses(e, b) ==
    /\ prru_code[e].c \in {"jmp to expression", "repeat: jmp back to body"}
    /\ JumpsTo(prru_code[e]) <= prru_code[b].loc
    /\ prru_code[b].loc <= prru_code[e].loc

\* C11, as stated: every rompe jump of the generated listing goes to the first
\* instruction after the nearest loop that encloses it
C11_RompeLeavesEnclosingLoop ==
    \A b, e \in 1..Len(prru_code) :
        (/\ prru_code[b].c = "rompe jump"
         /\ Encloses(e, b)
         /\ \A f \in 1..Len(prru_code) : Encloses(f, b) => prru_code[e].loc <= prru_code[f].loc)
            => JumpsTo(prru_code[b]) = prru_code[e].loc + 1

\* C12, as stated: once evaluate() is over on the factorial program, no stage has
\* refused it and the PM has halted after writing 120 and a newline
C12_FactorialPrints120 ==
    (tokens = Scan(FactorialSource) /\ op = "evaluate" /\ phase = "idle")
        => /\ raised = "none"
           /\ pm.result = "srHALT"
           /\ Text(pm.out) = "120\n"

\* C13, as stated: once evaluate() is over on the real division program, x holds
\* 3.5 in the data memory and the PM has written 3.5 and a newline
C13_RealDivisionPrints3_5 ==
    (tokens = Scan(RealDivisionSource) /\ op = "evaluate" /\ phase = "idle")
        => /\ raised = "none"
           /\ dMem[symbol_table[1].mem_location] = RealV(7, 2)
           /\ Text(pm.out) = "3.5\n"

\* the step just taken fetched the instruction the listing comments with c
Fetched(c) ==
    \E k \in 1..Len(prru_code) : prru_code[k].c = c /\ pm.fetched = IntV(prru_code[k].loc)

\* C14: in the run of the repeat program the rompe jump is taken only with i = 3 and
\* lands just after the loop's closing jump, the closing jump is only reached with
\* i < 3 (the body, which begins with ++i, runs three times), and the run ends
\* halted with 3 and a newline written
C14_RompeLeavesRepeat ==
    (tokens = Scan(RompeSource) /\ op = "evaluate" /\ phase \in {"loaded", "idle"})
        => /\ raised = "none"
           /\ Fetched("rompe jump")
                => /\ dMem[0] = IntV(3)
                   /\ \E k \in 1..Len(prru_code) :
                         /\ prru_code[k].c = "repeat: jmp back to body"
                         /\ reg[pc_reg + 1] = IntV(prru_code[k].loc + 1)
           /\ Fetched("repeat: jmp back to body") => dMem[0].n \in {1, 2}
           /\ phase = "idle" => pm.result = "srHALT" /\ Text(pm.out) = "3\n"

\* C14: the run of the repeat program is over, halted, with 3 and a newline written
C14_RompeRunOver ==
    /\ tokens = Scan(RompeSource) /\ op = "evaluate" /\ phase = "idle"
    /\ pm.result = "srHALT" /\ Text(pm.out) = "3\n"

\* C15: no emit procedure lowers highEmitLoc or leaves it below the emit location;
\* emit_backup(loc) moves the emit location to loc when loc <= highEmitLoc and
\* otherwise raises the emit bug with the emit location as it was; emit_restore()
\* puts the emit location at highEmitLoc
C15_EmitLocations ==
    [][/\ malcolm'.highEmitLoc >= malcolm.highEmitLoc
       /\ malcolm'.highEmitLoc >= malcolm'.pulga
       /\ op' = "emit_backup"
            => IF malcolm'.break_loc <= malcolm.highEmitLoc
               THEN malcolm'.raised = "none" /\ malcolm'.pulga = malcolm'.break_loc
               ELSE malcolm'.raised = "BUG in emitBackup" /\ malcolm'.pulga = malcolm.pulga
       /\ op' = "emit_restore" => malcolm'.pulga = malcolm.highEmitLoc]_vars

\* C15: an emit_backup to a location beyond highEmitLoc has raised, after lines were
\* emitted and the emit location had been moved back
C15_BackupRaised ==
    /\ op = "emit_backup"
    /\ malcolm.raised = "BUG in emitBackup"
    /\ malcolm.pulga < malcolm.highEmitLoc

\* the positions of the source at which an identifier is declared: an ID straight
\* after a type keyword or after the comma of a variable list
DeclaredAt ==
    {p \in 2..Len(tokens) : /\ tokens[p].cat = "ID"
                            /\ tokens[p - 1].lex \in {"int", "real", "boolean", ","}}

\* the positions at which an identifier is declared for the first time
FirstDeclaredAt == {p \in DeclaredAt : \A q \in DeclaredAt : q < p => tokens[q].lex # tokens[p].lex}

\* the type keyword of the declaration that position p is in
TypeAt(p) ==
    tokens[CHOOSE q \in 1..p : /\ tokens[q].lex \in {"int", "real", "boolean"}
                               /\ \A r \in (q + 1)..p : tokens[r].lex \notin {"int", "real", "boolean"}].lex

\* C16: the table a walk has filled holds one entry for each identifier the source
\* declares, in the order of the first declarations, with the mem_locations 0, 1, ...
\* in that order and the type of the first declaration
C16_LocationsInSourceOrder ==
    symbol_table # <<>>
        => /\ Len(symbol_table) = Cardinality(FirstDeclaredAt)
           /\ \A p \in FirstDeclaredAt :
                 /\ symbol_table[Cardinality({q \in FirstDeclaredAt : q <= p})].id = tokens[p].lex
                 /\ symbol_table[Cardinality({q \in FirstDeclaredAt : q <= p})].mem_location
                      = Cardinality({q \in FirstDeclaredAt : q < p})
                 /\ symbol_table[Cardinality({q \in FirstDeclaredAt : q <= p})].typex = TypeAt(p)

\* C16: a walk has filled the table from a source that declares two identifiers and
\* declares one of them three times
C16_Redeclared ==
    /\ tokens = Scan(RedeclaredSource)
    /\ Len(symbol_table) = 2
    /\ Len(pilgrim_errors) = 2
    /\ Cardinality(DeclaredAt) = 4

\* C17, as stated, for the combination it names: once walk() is over on a source
\* that assigns a boolean constant to a declared int variable, the type warning is
\* recorded and the variable's value is the one its declaration gave it
C17_BooleanToIntWarned ==
    \A p \in 1..(Len(tokens) - 3), k \in 1..Len(symbol_table) :
        (/\ op = "walk" /\ phase = "idle" /\ raised = "none"
         /\ tokens[p].cat = "ID" /\ tokens[p + 1].lex = ":="
         /\ tokens[p + 2].cat = "BOOLEAN" /\ tokens[p + 3].lex = ";"
         /\ symbol_table[k].id = tokens[p].lex /\ symbol_table[k].typex = "int")
            => /\ \E e \in 1..Len(pilgrim_errors) : pilgrim_errors[e].kind = "Expected type:"
               /\ symbol_table[k].val = IntV(0)

\* C18, as stated: once walk() has returned, every identifier of the statement list
\* names an entry of the symbol table or is named by a "not declared" error
C18_EveryIdentifierChecked ==
    (op = "walk" /\ phase = "idle" /\ raised = "none")
        => \A p \in 1..Len(tokens) :
              (tokens[p].cat = "ID" /\ p \notin DeclaredAt)
                  => \/ \E k \in 1..Len(symbol_table) : symbol_table[k].id = tokens[p].lex
                     \/ \E e \in 1..Len(pilgrim_errors) :
                           /\ pilgrim_errors[e].kind = "Variable was not declared"
                           /\ pilgrim_errors[e].lex = tokens[p].lex

C20_DivisionByZeroRefused ==
    (/\ tokens \in {Scan(ZeroDivisionSource), Scan(FoldedZeroSource)}
     /\ op \in {"walk", "degen", "evaluate"} /\ phase = "idle")
        => /\ \E e \in 1..Len(pilgrim_errors) : pilgrim_errors[e].kind = "Division by zero"
           /\ tokens = Scan(FoldedZeroSource) => symbol_table[1].val = RealV(1, 0)
           /\ op # "walk" => raised = "SEMANTIC_ERRORS_REMAIN" /\ prru_code = <<>>

\* C20: degen() has refused the source that assigns 5 / 0 to an int
C20_ZeroDivisionRefused ==
    /\ tokens = Scan(ZeroDivisionSource)
    /\ op = "degen" /\ phase = "idle"
    /\ raised = "SEMANTIC_ERRORS_REMAIN"
    /\ pilgrim_errors # <<>>

\* the positions lo..hi at which one of the operators ops stands outside every
\* parenthesis of lo..hi and after an operand, i.e. as a binary operator
Splits(lo, hi, ops) ==
    {p \in (lo + 1)..hi :
        /\ tokens[p].lex \in ops
        /\ tokens[p - 1].cat \in {"ID", "INT", "REAL", "BOOLEAN"} \/ tokens[p - 1].lex = ")"
        /\ Cardinality({q \in lo..p : tokens[q].lex = "("})
             = Cardinality({q \in lo..p : tokens[q].lex = ")"})}

\* the operator at which the expression lo..hi divides: its relational operator, or
\* else its last additive one, or else its last multiplicative one; 0 when it has none
SplitAt(lo, hi) ==
    IF Splits(lo, hi, FirstRel) # {} THEN CHOOSE p \in Splits(lo, hi, FirstRel) : TRUE
    ELSE IF Splits(lo, hi, FirstAdd) # {}
    THEN CHOOSE p \in Splits(lo, hi, FirstAdd) : \A q \in Splits(lo, hi, FirstAdd) : q <= p
    ELSE IF Splits(lo, hi, FirstMul) # {}
    THEN CHOOSE p \in Splits(lo, hi, FirstMul) : \A q \in Splits(lo, hi, FirstMul) : q <= p
    ELSE 0

\* the tree of the well-formed expression at lo..hi, read off the tokens: binary
\* operators associate to the left, * and / bind tighter than + and -, these
\* tighter than the relational operator; a sign has one child; parentheses vanish
RECURSIVE TreeOf(_, _)
TreeOf(lo, hi) ==
    IF SplitAt(lo, hi) # 0
    THEN WithKids(Atom(TokenAt(SplitAt(lo, hi)), ""),
                  <<TreeOf(lo, SplitAt(lo, hi) - 1), TreeOf(SplitAt(lo, hi) + 1, hi)>>)
    ELSE IF tokens[lo].lex \in FirstAdd
    THEN WithKids(Atom(TokenAt(lo), ""), <<TreeOf(lo + 1, hi)>>)
    ELSE IF tokens[lo].lex = "(" THEN TreeOf(lo + 1, hi - 1)
    ELSE Atom(TokenAt(lo), "")

\* the first position after p that holds the lexeme l
Next_(p, l) == CHOOSE q \in (p + 1)..Len(tokens) :
                  tokens[q].lex = l /\ \A r \in (p + 1)..(q - 1) : tokens[r].lex # l

\* C21: in the tree of a parse without syntax errors, the expression assigned by
\* each "x := e;", written by each "cout e;" and tested by each "if (e) then" is
\* the left-associative tree of e with * and / below + and -, these below the
\* relational operator, one child under a sign and no node for a parenthesis
C21_ExpressionShape ==
    (op = "parse" /\ phase = "idle" /\ raised = "none" /\ taurus.errs = <<>>)
        => \A p \in 1..Len(tokens) :
              /\ (tokens[p].cat = "ID" /\ TokenAt(p + 1).lex = ":=")
                    => \E k \in 1..Len(PostOrderIter(taurus_root)) :
                          /\ PostOrderIter(taurus_root)[k].loc = Loc(p)
                          /\ PostOrderIter(taurus_root)[k].lex = "Assign to:"
                          /\ PostOrderIter(taurus_root)[k].kids
                               = <<TreeOf(p + 2, Next_(p, ";") - 1)>>
              /\ tokens[p].lex \in {"cout", "coutln"}
                    => \E k \in 1..Len(PostOrderIter(taurus_root)) :
                          /\ PostOrderIter(taurus_root)[k].loc = Loc(p)
                          /\ PostOrderIter(taurus_root)[k].kids
                               = <<TreeOf(p + 1, Next_(p, ";") - 1)>>
              /\ tokens[p].lex = "if"
                    => \E k \in 1..Len(PostOrderIter(taurus_root)) :
                          /\ PostOrderIter(taurus_root)[k].loc = Loc(p)
                          /\ PostOrderIter(taurus_root)[k].kids[1]
                               = TreeOf(p + 2, Next_(p, "then") - 2)

\* C21: a parse without syntax errors has built, for "x - y - 1", a '-' whose first
\* child is the '-' of x and y and whose second child is the constant
C21_ChainParsed ==
    /\ tokens = Scan(ExpressionsSource)
    /\ op = "parse" /\ phase = "idle" /\ taurus.errs = <<>>
    /\ \E k \in 1..Len(PostOrderIter(taurus_root)) :
          /\ PostOrderIter(taurus_root)[k].lex = "-"
          /\ Len(PostOrderIter(taurus_root)[k].kids) = 2
          /\ PostOrderIter(taurus_root)[k].kids[1].lex = "-"
          /\ PostOrderIter(taurus_root)[k].kids[2].lex = "1"

\* the tree the four statements x++; ++x; x--; --x; stand for, for the variable at
\* position v and the operator at position o: 'Assign to: x' over '+' or '-' over
\* the marked copy of x and the constant 1, both at the operator's location
Desugared(v, o) ==
    [lex |-> "Assign to:", cat |-> "ID", loc |-> Loc(v), tgt |-> tokens[v].lex,
     inc_dec |-> FALSE, id_loc |-> NoLoc,
     kids |-> <<[lex |-> IF tokens[o].lex = "++" THEN "+" ELSE "-", cat |-> "OP", loc |-> Loc(o),
                 tgt |-> "", inc_dec |-> FALSE, id_loc |-> NoLoc,
                 kids |-> <<[lex |-> tokens[v].lex, cat |-> "ID", loc |-> Loc(o), tgt |-> "",
                             inc_dec |-> TRUE, id_loc |-> NoLoc, kids |-> <<>>],
                            [lex |-> "1", cat |-> "INT", loc |-> Loc(o), tgt |-> "",
                             inc_dec |-> FALSE, id_loc |-> NoLoc, kids |-> <<>>]>>]>>]

\* the positions at which an assignment statement begins, := ones included
AssignmentsAt ==
    {p \in 1..Len(tokens) :
        \/ tokens[p].cat = "ID" /\ TokenAt(p + 1).lex \in FirstAt
        \/ tokens[p].lex \in FirstUna /\ TokenAt(p + 1).cat = "ID"}

\* the variable and the operator of the increment or decrement statement at p
IncDecVar(p) == IF tokens[p].cat = "ID" THEN p ELSE p + 1

IncDecOp(p) == IF tokens[p].cat = "ID" THEN p + 1 ELSE p

\* the lines the generator has put for the assignment statement at p, without
\* their locations: the assignments are generated in source order, each between its
\* "-> assignment" and "<- assignment" comments
CodeOf(p) ==
    [i \in 1..(CHOOSE n \in 0..Len(prru_code) :
                 \E b \in 1..Len(prru_code) :
                    /\ prru_code[b].c = "-> assignment"
                    /\ Cardinality({a \in 1..b : prru_code[a].c = "-> assignment"})
                         = Cardinality({q \in AssignmentsAt : q <= p})
                    /\ prru_code[b + n + 1].c = "<- assignment"
                    /\ \A m \in 1..n : prru_code[b + m].c # "<- assignment")
       |-> [prru_code[i + CHOOSE b \in 1..Len(prru_code) :
                            /\ prru_code[b].c = "-> assignment"
                            /\ Cardinality({a \in 1..b : prru_code[a].c = "-> assignment"})
                                 = Cardinality({q \in AssignmentsAt : q <= p})]
              EXCEPT !.loc = 0]]

\* C22: in a parse without syntax errors each of x++; ++x; x--; --x; is the tree
\* 'Assign to: x' over '+' or '-' over (x marked inc_dec, 1); and in a generated
\* listing the post- and the pre- form of the same operator on the same variable
\* have the same instructions
C22_IncDecDesugared ==
    /\ (op = "parse" /\ phase = "idle" /\ raised = "none" /\ taurus.errs = <<>>)
         => \A p \in AssignmentsAt :
               tokens[IncDecOp(p)].lex \in FirstUna
                   => \E k \in 1..Len(PostOrderIter(taurus_root)) :
                         PostOrderIter(taurus_root)[k] = Desugared(IncDecVar(p), IncDecOp(p))
    /\ prru_code # <<>>
         => \A p, q \in AssignmentsAt :
               (/\ tokens[IncDecOp(p)].lex \in FirstUna
                /\ tokens[IncDecOp(p)].lex = tokens[IncDecOp(q)].lex
                /\ tokens[IncDecVar(p)].lex = tokens[IncDecVar(q)].lex)
                   => CodeOf(p) = CodeOf(q)

\* C22: the listing of the source with x++; ++x; x--; --x; is generated, and the
\* post-increment's six instructions end with the store to x
C22_BothFormsGenerated ==
    /\ tokens = Scan(IncDecSource)
    /\ prru_code # <<>>
    /\ Cardinality({p \in AssignmentsAt : tokens[IncDecOp(p)].lex \in FirstUna}) = 4
    /\ Len(SelectSeq(CodeOf(6), LAMBDA l : l.op # "*")) = 6
    /\ CodeOf(6) # CodeOf(12)

\* the position of the } that closes the { at position b, 0 when none does
ClosingOf(b) ==
    IF \E c \in (b + 1)..Len(tokens) :
          Cardinality({q \in b..c : tokens[q].lex = "{"})
              = Cardinality({q \in b..c : tokens[q].lex = "}"})
    THEN CHOOSE c \in (b + 1)..Len(tokens) :
            /\ Cardinality({q \in b..c : tokens[q].lex = "{"})
                 = Cardinality({q \in b..c : tokens[q].lex = "}"})
            /\ \A d \in (b + 1)..(c - 1) :
                  Cardinality({q \in b..d : tokens[q].lex = "{"})
                      # Cardinality({q \in b..d : tokens[q].lex = "}"})
    ELSE 0

\* position p lies between the braces of the block of a while or repeat
InLoopBlock(p) ==
    \E w \in 1..(p - 1) :
        /\ tokens[w].lex \in {"while", "repeat"}
        /\ \E b \in (w + 1)..(p - 1) :
              /\ tokens[b].lex = "{"
              /\ \A q \in (w + 1)..(b - 1) : tokens[q].lex # "{"
              /\ p < ClosingOf(b)

\* C23: a parse that recorded no syntax error, and so every generated listing, has
\* each of its rompe tokens between the braces of the block of a while or repeat
\* (the blocks of an if or else in that block included); a rompe anywhere else
\* leaves a syntax error
C23_RompeOnlyInLoops ==
    /\ (op \in {"parse", "walk", "degen", "evaluate"} /\ phase # "parsing" /\ taurus.errs = <<>>
            /\ (phase = "idle" => raised = "none"))
         => \A p \in 1..Len(tokens) : tokens[p].lex = "rompe" => InLoopBlock(p)
    /\ prru_code # <<>>
         => \A p \in 1..Len(tokens) : tokens[p].lex = "rompe" => InLoopBlock(p)

\* C23: the rompe in the block of an if outside every loop is refused by the parse
\* with a syntax error, and nothing is generated
C23_StrayRompeRefused ==
    /\ tokens = Scan(StrayRompeInIf)
    /\ op = "degen" /\ phase = "idle"
    /\ taurus.errs # <<>>
    /\ raised # "none"
    /\ prru_code = <<>>

\* the errors of the given kind among those recorded from position k on
Recorded(errs, k, kind) == {e \in k..Len(errs) : errs[e].kind = kind}

DivFetched ==
    /\ phase = "loaded" /\ pm.result = "srOKAY"
    /\ reg[pc_reg + 1].t = "int" /\ reg[pc_reg + 1].n \in DOMAIN iMem
    /\ iMem[reg[pc_reg + 1].n].iop = "DIV"

\* the registers r, s and t of the instruction the next step_pm call fetches
RegR == iMem[reg[pc_reg + 1].n].iarg1 + 1

RegS == iMem[reg[pc_reg + 1].n].iarg2.n + 1

RegT == iMem[reg[pc_reg + 1].n].iarg3 + 1

Cmd(read, k) == SubSeq(read[k], 1, 1)

\* C26: a step of do_command leaves the instruction memory as it is; on 'c' it
\* leaves the 8 registers 0, the data memory {0 -> 1023} and the loop at its prompt;
\* on 'h' and on a command that is none of h, g, c, q it leaves registers, data
\* memory and symbol values as they are and the loop at its prompt; on 'q' it ends
\* the loop with the machine as it is.  The first step_pm of a 'g' that follows a
\* 'c' fetches location 0
C26_CommandEffects ==
    [][/\ commands' # commands
          => /\ iMem' = iMem
             /\ Cmd(commands', Len(commands')) = "c"
                  => /\ DOMAIN reg' = 1..8
                     /\ \A k \in 1..8 : reg'[k] = IntV(0)
                     /\ dMem' = [a \in {0} |-> IntV(1023)]
                     /\ phase' = "prompt"
             /\ Cmd(commands', Len(commands')) \notin {"g", "c", "q"}
                  => /\ reg' = reg /\ dMem' = dMem /\ symbol_table' = symbol_table
                     /\ phase' = "prompt"
             /\ Cmd(commands', Len(commands')) = "q"
                  => /\ reg' = reg /\ dMem' = dMem /\ symbol_table' = symbol_table
                     /\ phase' = "idle"
             /\ Cmd(commands', Len(commands')) = "g"
                  => reg' = reg /\ dMem' = dMem /\ phase' = "loaded"
       /\ (/\ commands' = commands /\ pm.fetched = NoneV /\ Len(commands) >= 2
           /\ Cmd(commands, Len(commands)) = "g" /\ Cmd(commands, Len(commands) - 1) = "c")
          => pm'.fetched = IntV(0)]_vars

\* C26: after the commands g, clear, g the store-load-write program has run and
\* halted twice, writing its 7 both times
C26_RunAgainAfterClear ==
    /\ commands = <<"g", "clear", "g">>
    /\ phase = "prompt"
    /\ pm.result = "srHALT"
    /\ Len(pm.out) = 2
    /\ reg[pc_reg + 1] = IntV(5)

\* C27, as stated: when the first line of the file leaves the lexer in a block
\* comment and the second line has a */, the tokens of the second line are all
\* those that follow its first */
C27_ResumesAfterFirstEnd ==
    (/\ op = "scan"
     /\ Finditer(_replace_tabs(input_file[1], 0), 1, 1).block_comment_mode
     /\ Pairs(input_file[2], 1, "*/") # {})
        => SelectSeq(tokens, LAMBDA t : t.loc[1] = 2)
             = Finditer(input_file[2], 2, Least(Pairs(input_file[2], 1, "*/")) + 2).yielded

\* the operands text an emit primitive puts for the operands of an instruction
Rendered(inst) ==
    IF inst.iop \in RR_instructions
    THEN ToString(inst.iarg1) \o "," \o ToString(inst.iarg2.n) \o "," \o ToString(inst.iarg3)
    ELSE ToString(inst.iarg1) \o "," \o Printed(inst.iarg2) \o "(" \o ToString(inst.iarg3) \o ")"

\* C28: of a listing just generated, every instruction line, written with or
\* without its trace comment, is read back by the loader as its own location,
\* opcode and operands text, and every comment line begins with the * that makes
\* the loader skip it; once loaded, iMem holds at each line's location an
\* instruction of the line's opcode whose three operands are those of the line
C28_ListingRoundTrip ==
    /\ phase = "generated"
         => \A k \in 1..Len(prru_code) :
               IF prru_code[k].op = "*"
               THEN Head(LineText(prru_code[k], TRUE)) = "*"
               ELSE \A TraceCode \in BOOLEAN :
                       /\ Head(LineText(prru_code[k], TraceCode)) # "*"
                       /\ ReadText(LineText(prru_code[k], TraceCode))
                            = [loc |-> prru_code[k].loc, op |-> prru_code[k].op,
                               regs |-> prru_code[k].regs]
    /\ (phase = "loaded" /\ pm = NoStep /\ prru_code # <<>>)
         => /\ DOMAIN iMem = {prru_code[k].loc : k \in {j \in 1..Len(prru_code) :
                                                          prru_code[j].op # "*"}}
            /\ \A k \in 1..Len(prru_code) :
                  prru_code[k].op # "*"
                      => /\ iMem[prru_code[k].loc].iop = prru_code[k].op
                         /\ Rendered(iMem[prru_code[k].loc]) = prru_code[k].regs

\* C28: a listing is loaded that has a jump back (a negative displacement), and
\* the PM has not stepped yet
C28_LoadedWithBackJump ==
    /\ phase = "loaded" /\ pm = NoStep /\ prru_code # <<>>
    /\ \E k \in 1..Len(prru_code) :
          /\ prru_code[k].op = "LDA"
          /\ iMem[prru_code[k].loc].iarg2.n < 0
          /\ iMem[prru_code[k].loc].iarg3 = pc

\* the lines of the listing with the given trace comment
Commented(c) == {k \in 1..Len(prru_code) : prru_code[k].c = c}

\* the number of lines from v to q with the given trace comment
Count(c, v, q) == Cardinality({k \in v..q : prru_code[k].c = c})

\* the line that opens with comment open what the line q closes with comment close
Opener(open, close, q) ==
    Greatest({w \in 1..q : prru_code[w].c = open /\ Count(open, w, q) = Count(close, w, q)})

\* the location of the first instruction the listing has after line w
FirstAfter(w) ==
    prru_code[Least({k \in (w + 1)..Len(prru_code) : prru_code[k].op # "*"})].loc

\* for the while whose JEQ is line j of the listing: the location of that JEQ, of
\* the jump back that ends the loop, and of the first instruction of the condition
Hole(j) == prru_code[j].loc

Back(j) == prru_code[Least({k \in (j + 1)..Len(prru_code) :
                              prru_code[k].c = "jmp to expression"})].loc

Start(j) ==
    FirstAfter(Opener("-> while", "<- while",
                      Least({q \in (j + 1)..Len(prru_code) : prru_code[q].c = "<- while"})))

\* the last step_pm call fetched in the locations lo..hi
FetchedIn(step, lo, hi) ==
    step.fetched # NoneV /\ step.fetched.n >= lo /\ step.fetched.n <= hi

\* C29: for every while of a loaded listing, with its condition code from Start,
\* its JEQ at Hole and its jump back at Back: the JEQ, when AC is 0, is followed by
\* the instruction after the jump back, and otherwise by the first of the body; the
\* jump back is followed by the first instruction of the condition; and control
\* gets among the condition's instructions only at the first of them, and among
\* the body's only from the JEQ
C29_WhileControl ==
    [][(phase = "loaded" /\ pm'.result = "srOKAY")
          => \A j \in Commented("jmp to after while") :
                /\ Start(j) <= Hole(j) /\ Hole(j) < Back(j)
                /\ pm'.fetched = IntV(Hole(j))
                     => reg'[pc_reg + 1]
                          = IntV(IF IsZero(reg[ac + 1]) THEN Back(j) + 1 ELSE Hole(j) + 1)
                /\ pm'.fetched = IntV(Back(j)) => reg'[pc_reg + 1] = IntV(Start(j))
                /\ (FetchedIn(pm', Start(j), Hole(j)) /\ ~FetchedIn(pm, Start(j), Hole(j)))
                     => pm'.fetched = IntV(Start(j))
                /\ (FetchedIn(pm', Hole(j) + 1, Back(j)) /\ ~FetchedIn(pm, Hole(j) + 1, Back(j)))
                     => pm.fetched = IntV(Hole(j)) /\ ~IsZero(reg[ac + 1])]_vars

\* C29: in the run of the factorial program the JEQ of the while has just been
\* taken, with n at 0, to the instruction after the jump back
C29_WhileLeft ==
    /\ tokens = Scan(FactorialDeclaredFirst)
    /\ phase = "loaded"
    /\ \E j \in Commented("jmp to after while") :
          /\ pm.fetched = IntV(Hole(j))
          /\ reg[pc_reg + 1] = IntV(Back(j) + 1)
          /\ Start(j) < Hole(j)

\* for the if whose JEQ is line j of the listing: its "-> if" and "<- if" lines
IfOpener(j) ==
    Greatest({w \in 1..j : /\ prru_code[w].c = "-> if"
                            /\ Count("-> if", w, j) = Count("<- if", w, j) + 1})

IfCloser(j) ==
    Least({q \in (j + 1)..Len(prru_code) :
              /\ prru_code[q].c = "<- if"
              /\ Count("<- if", j, q) = Count("-> if", j, q) + 1})

\* it has an else part: the last line before its "<- if" is the jump over that part,
\* which stands at the location after the then part
HasElse(j) == prru_code[IfCloser(j) - 1].c = "jmp to after else"

ElseHole(j) == prru_code[IfCloser(j) - 1].loc

\* the location of the first instruction after the whole if: the lowest one above
\* its JEQ of the instructions put after its "<- if", the jumps of rompe aside
EndIf(j) ==
    Least({prru_code[k].loc : k \in {i \in (IfCloser(j) + 1)..Len(prru_code) :
                                        /\ prru_code[i].op # "*"
                                        /\ prru_code[i].loc > prru_code[j].loc
                                        /\ prru_code[i].c # "rompe jump"}})

\* the last location of its then part
ThenEnd(j) == IF HasElse(j) THEN ElseHole(j) - 1 ELSE EndIf(j) - 1

\* C30: for every if of a loaded listing: its JEQ is followed, when AC is 0, by
\* the first instruction of the else part, or with no else part by the first
\* instruction after the if, and otherwise by the first of the then part; the jump
\* that ends the then part of an if with an else is followed by the first
\* instruction after the if; control gets into the then part only from the JEQ
\* with AC not 0 and into the else part only from the JEQ with AC 0; and it leaves
\* the if to the first instruction after it, or by the jump of a rompe
C30_IfControl ==
    [][(phase = "loaded" /\ pm'.result = "srOKAY")
          => \A j \in Commented("if: jmp to after then") :
                /\ pm'.fetched = IntV(Hole(j))
                     => reg'[pc_reg + 1]
                          = IntV(IF ~IsZero(reg[ac + 1]) THEN Hole(j) + 1
                                 ELSE IF HasElse(j) THEN ElseHole(j) + 1 ELSE EndIf(j))
                /\ (HasElse(j) /\ pm'.fetched = IntV(ElseHole(j)))
                     => reg'[pc_reg + 1] = IntV(EndIf(j))
                /\ (FetchedIn(pm', Hole(j) + 1, ThenEnd(j))
                       /\ ~FetchedIn(pm, Hole(j) + 1, ThenEnd(j)))
                     => pm.fetched = IntV(Hole(j)) /\ ~IsZero(reg[ac + 1])
                /\ (HasElse(j) /\ FetchedIn(pm', ElseHole(j) + 1, EndIf(j) - 1)
                       /\ ~FetchedIn(pm, ElseHole(j) + 1, EndIf(j) - 1))
                     => pm.fetched = IntV(Hole(j)) /\ IsZero(reg[ac + 1])
                /\ (FetchedIn(pm, FirstAfter(IfOpener(j)), EndIf(j) - 1)
                       /\ ~FetchedIn(pm', FirstAfter(IfOpener(j)), EndIf(j) - 1))
                     => \/ pm'.fetched = IntV(EndIf(j))
                        \/ \E k \in Commented("rompe jump") : pm.fetched = IntV(prru_code[k].loc)]_vars

\* C30: in the run of the program with two if-else, the then part of the second
\* has run and its closing jump has just gone to the instruction after that if
C30_ThenPartLeft ==
    /\ tokens = Scan(IfElseSource)
    /\ phase = "loaded"
    /\ \E j \in Commented("if: jmp to after then") :
          /\ HasElse(j)
          /\ pm.fetched = IntV(ElseHole(j))
          /\ reg[pc_reg + 1] = IntV(EndIf(j))
          /\ reg[pc_reg + 1].n > ElseHole(j) + 1

\* the position _scanto stops at: the first token from the current one on that
\* is in syncset or has a category of the flag, or the end of the input
ScanStop(syncset, category_flag) ==
    Least({p \in taurus.pos..(Len(tokens) + 1) :
              \/ p > Len(tokens)
              \/ tokens[p].lex \in syncset
              \/ tokens[p].cat \in category_flag})

\* the current token matches what is expected: by its lexeme, or by its category
\* where a selection of categories is expected
Matches(expected_lexeme) ==
    \/ ~expected_lexeme.tup /\ Cur(taurus).lex = expected_lexeme.str
    \/ expected_lexeme.tup /\ Cur(taurus).cat \in expected_lexeme.set

\* C31: whatever _sync is called with, at any token of the stream: if the current
\* token has the expected lexeme, or a category of the expected selection, the
\* parser moves to the next token and the errors stay as they are; in every other
\* case the errors are those _add_error leaves (one more for a token that is
\* there) and the parser stands at the first token from the current one on that is
\* in syncset, has a category of the flag, or ends the input
C31_SyncMatchesOrReports ==
    \A expected_lexeme \in Expecteds, syncset \in Syncsets, category_flag \in CategoryFlags :
        IF Matches(expected_lexeme)
        THEN /\ Sync(taurus, expected_lexeme, syncset, category_flag).pos = taurus.pos + 1
             /\ Sync(taurus, expected_lexeme, syncset, category_flag).errs = taurus.errs
        ELSE /\ Sync(taurus, expected_lexeme, syncset, category_flag).errs
                  = AddError(taurus, expected_lexeme).errs
             /\ Sync(taurus, expected_lexeme, syncset, category_flag).pos
                  = ScanStop(syncset, category_flag)

\* the 0-based column, in the expanded line, of the character at position i of
\* the line as it is in the file (of the end of the line for i = Len(line) + 1)
RECURSIVE ColumnOf(_, _)
ColumnOf(line, i) ==
    IF i = 1 THEN 0
    ELSE IF Char(line, i - 1) = "\t" THEN (ColumnOf(line, i - 1) \div 4 + 1) * 4
    ELSE ColumnOf(line, i - 1) + 1

\* the line of the file as scan() lexes it
Expanded(k) == _replace_tabs(input_file[k], 0)

\* C32: in every line of a scanned file each tab stands for 1 to 4 spaces that end
\* at a column which is a multiple of 4 (counted from 0), every other character
\* stands at its column, and nothing else is in the expanded line; and every
\* token reports a line of the file, counted from 1, and the column, counted
\* from 1, at which its lexeme begins in the expanded line
C32_TabsAndColumns ==
    op = "scan" =>
        /\ \A k \in 1..Len(input_file) :
              /\ Len(Expanded(k)) = ColumnOf(input_file[k], Len(input_file[k]) + 1)
              /\ \A i \in 1..Len(input_file[k]) :
                    IF Char(input_file[k], i) = "\t"
                    THEN /\ ColumnOf(input_file[k], i + 1) - ColumnOf(input_file[k], i) \in 1..4
                         /\ ColumnOf(input_file[k], i + 1) % 4 = 0
                         /\ \A c \in (ColumnOf(input_file[k], i) + 1)..ColumnOf(input_file[k], i + 1) :
                               Char(Expanded(k), c) = " "
                    ELSE Char(Expanded(k), ColumnOf(input_file[k], i) + 1) = Char(input_file[k], i)
        /\ \A t \in 1..Len(tokens) :
              /\ tokens[t].loc[1] \in 1..Len(input_file)
              /\ tokens[t].loc[2] >= 1
              /\ SubSeq(Expanded(tokens[t].loc[1]), tokens[t].loc[2],
                        tokens[t].loc[2] + Len(tokens[t].lex) - 1) = tokens[t].lex

\* C32: a file whose second line has a tab at column 3 has been scanned: the name
\* after the tab is reported at line 2, column 5
C32_TabAtColumnThree ==
    /\ op = "scan"
    /\ input_file = <<"x", "xab\tx">>
    /\ tokens = <<[lex |-> "x", cat |-> "ID", loc |-> <<1, 1>>],
                  [lex |-> "xab", cat |-> "ID", loc |-> <<2, 1>>],
                  [lex |-> "x", cat |-> "ID", loc |-> <<2, 5>>]>>

\* the lines of the listing that put an instruction at location loc
LinesAt(loc) == {k \in 1..Len(prru_code) : prru_code[k].op # "*" /\ prru_code[k].loc = loc}

\* C33: a listing that degen() has produced without raising has exactly one
\* instruction line for each location from 0 to highEmitLoc - 1, and while it
\* runs the PC stands at a location that has an instruction
C33_EveryLocationOnce ==
    /\ (phase \in {"generated", "loaded"} /\ malcolm.raised = "none")
          => \A loc \in 0..(malcolm.highEmitLoc - 1) : Cardinality(LinesAt(loc)) = 1
    /\ (phase = "loaded" /\ pm.result = "srOKAY") => LinesAt(reg[pc_reg + 1].n) # {}

\* the expression of the one statement, cout, of a program of FoldSources
Written == taurus_root.kids[2].kids[1].kids[1]

\* what the analyzer folds for it
Folded == EvalIdNumOp(NewPilgrim, Written).val

\* C34: when the program that writes a constant expression has run to its HALT,
\* AC holds the integer the analyzer folds for the expression, True and False
\* read as 1 and 0
C34_FoldedEqualsRun ==
    (op = "evaluate" /\ pm.result = "srHALT")
        => /\ Folded.t \in {"int", "bool"}
           /\ reg[ac + 1] = IntV(Folded.n)
           /\ Len(pm.out) = 1 /\ pm.out[1].val = IntV(Folded.n)

\* C34: the program that writes (2 - 7) / 2 has run: the analyzer folds -2, AC
\* holds -2 and -2 has been written
C34_NegativeTruncated ==
    /\ tokens = Scan(<<"main", "{", "cout", "(", "2", "-", "7", ")", "/", "2", ";", "}">>)
    /\ op = "evaluate" /\ pm.result = "srHALT"
    /\ Folded = IntV(-2)
    /\ reg[ac + 1] = IntV(-2)
    /\ pm.out = <<[val |-> IntV(-2), nl |-> FALSE]>>

\* C35: a step that has fetched an LD and computed an address within the data
\* memory has put a value into its register and returned srOKAY: the cell reads as
\* a scalar whether or not the program has written it
C35_LoadYieldsValue ==
    (/\ pm.fetched.t = "int"
     /\ pm.fetched.n \in DOMAIN iMem
     /\ iMem[pm.fetched.n].iop = "LD"
     /\ pm.m \in 0..(daddr_size - 1))
        => /\ pm.result = "srOKAY"
           /\ raised = "none"
           /\ reg[iMem[pm.fetched.n].iarg1 + 1].t \in {"int", "real", "bool"}

\* the analyzer's list holds something, and nothing but type-mismatch warnings
OnlyWarnings ==
    /\ pilgrim_errors # <<>>
    /\ \A k \in 1..Len(pilgrim_errors) : pilgrim_errors[k].kind = "Expected type:"

\* C36: when walk() has left only type-mismatch warnings in the analyzer's list,
\* the step degen() takes next raises SEMANTIC_ERRORS_REMAIN, leaves the listing
\* empty and goes no further, as it does for errors
C36_WarningRefused ==
    [][(phase = "walked" /\ OnlyWarnings)
          => /\ raised' = "SEMANTIC_ERRORS_REMAIN"
             /\ prru_code' = <<>>
             /\ phase' = "idle"
             /\ iMem' = iMem]_vars

\* C36: the program that assigns 1.5 to an int has been through degen(): the one
\* entry of the analyzer's list is the warning, degen() has raised and there is
\* no listing
C36_RealToIntRefused ==
    /\ tokens = Scan(<<"main", "{", "int", "x", ";", "x", ":=", "1.5", ";", "}">>)
    /\ op \in {"degen", "evaluate"}
    /\ phase = "idle"
    /\ Len(pilgrim_errors) = 1 /\ OnlyWarnings
    /\ raised = "SEMANTIC_ERRORS_REMAIN"
    /\ prru_code = <<>>

\* the position of the one division of a program of DivisorSources
DivisionAt == CHOOSE p \in 1..Len(tokens) : tokens[p].lex = "/"

\* the positions before the division at which its divisor y is assigned
AssignedAt == {p \in 1..(DivisionAt - 1) : tokens[p].lex = "y" /\ tokens[p + 1].lex = ":="}

\* the divisor's compile-time value where the division stands is 0: y is not
\* assigned before it (a cin does not count), or the last assignment gives it 0
FoldsToZero == AssignedAt = {} \/ tokens[Greatest(AssignedAt) + 2].lex = "0"

\* C37: once the analyzer has walked a program that divides by the variable y:
\* if y's compile-time value is 0 where the division stands, whatever is read or
\* assigned to y elsewhere, the division by zero is in the analyzer's list, at the
\* divisor's location, and the code generator, when it has had its turn, has
\* refused and left no listing; otherwise no division by zero is in the list
C37_DivisorFoldedInOrder ==
    (op = "evaluate" /\ phase \in {"walked", "generated", "loaded", "idle"} /\ walks # <<>>)
        => IF FoldsToZero
           THEN /\ \E e \in 1..Len(pilgrim_errors) :
                      /\ pilgrim_errors[e].kind = "Division by zero"
                      /\ pilgrim_errors[e].loc = Loc(DivisionAt + 1)
                /\ phase \notin {"generated", "loaded"}
                /\ prru_code = <<>>
                /\ phase = "idle" => raised = "SEMANTIC_ERRORS_REMAIN"
           ELSE \A e \in 1..Len(pilgrim_errors) : pilgrim_errors[e].kind # "Division by zero"

\* C37: the program that reads y and then divides 7 by it has been through the
\* analyzer and the code generator: the division by zero is recorded, the
\* generator has raised and there is no listing
C37_ReadDivisorRefused ==
    /\ tokens = Scan(<<"main", "{", "int", "x", ",", "y", ";", "cin", "y", ";",
                       "x", ":=", "7", "/", "y", ";", "cout", "x", ";", "}">>)
    /\ op = "evaluate" /\ phase = "idle"
    /\ raised = "SEMANTIC_ERRORS_REMAIN"
    /\ prru_code = <<>>
    /\ pilgrim_errors[1].kind = "Division by zero"

\* the lines of the listing that push a left operand, and those that pop one
Pushes == Commented("op: push left operand")

Pops == Commented("op: load left operand")

\* the offset k of the line "ST ac,k(mp)" or "LD ac1,k(mp)"
OffsetOf(k) ==
    CHOOSE d \in -8..8 :
        prru_code[k].regs = ToString(IF k \in Pushes THEN ac ELSE ac1) \o ","
                              \o ToString(d) \o "(" \o ToString(mp) \o ")"

\* the operands pushed and not yet popped before line k
Pending(k) ==
    Count("op: push left operand", 1, k - 1) - Count("op: load left operand", 1, k - 1)

\* the push whose operand the pop at line p loads
PushOf(p) ==
    Greatest({q \in Pushes : q < p /\ Count("op: push left operand", q, p)
                                        = Count("op: load left operand", q, p)})

\* the lines that belong to a statement and to none of its expressions
StatementLines ==
    {k \in 1..Len(prru_code) :
        prru_code[k].c \in {"-> assignment", "<- assignment", "assignment: store value",
                            "-> if", "<- if", "if: jump after then belongs here",
                            "-> while", "<- while", "-> repeat", "<- repeat",
                            "-> write", "-> read", "<- read", "End of execution"}}

\* C38: in a listing that degen() has produced: no push or pop has a positive
\* offset; nothing is pending on the temp stack at the lines of a statement that
\* stand outside its expressions, nor at the end, where tmpOffset is 0 again;
\* never more is popped than was pushed; and every pop loads from the offset of
\* its own push, with no other push at that offset between the two
C38_TempStackBalanced ==
    (phase \in {"generated", "loaded"} /\ malcolm.raised = "none")
        => /\ malcolm.tmpOffset = 0
           /\ Cardinality(Pushes) = Cardinality(Pops)
           /\ \A k \in Pushes \cup Pops : OffsetOf(k) <= 0 /\ Pending(k) >= 0
           /\ \A k \in StatementLines : Pending(k) = 0
           /\ \A p \in Pops :
                 /\ OffsetOf(p) = OffsetOf(PushOf(p))
                 /\ \A q \in Pushes : (PushOf(p) < q /\ q < p) => OffsetOf(q) # OffsetOf(p)

\* C38: the listing of the program with nested expressions is there: an operand
\* is pushed at offset -1 while the one pushed at 0 before it is still pending
C38_NestedOperands ==
    /\ tokens = Scan(ExpressionsSource)
    /\ phase = "generated" /\ malcolm.raised = "none"
    /\ \E p \in Pops : \E q \in Pushes :
          /\ PushOf(p) < q /\ q < p
          /\ OffsetOf(p) = 0 /\ OffsetOf(q) = -1

====
